---------------------------- MODULE Spec2Model ----------------------------
(***************************************************************************)
(* The room session engine of server/index.js: one room of the registry,   *)
(* the sockets that talk to it, and every socket.io handler as one atomic  *)
(* action (node runs each handler to completion).                          *)
(*                                                                         *)
(* Random values are modelled by what they can be: shuffle() returns any   *)
(* permutation, nanoid() a fresh id (a player's id is its seat number, a   *)
(* submission's id a negative number the room's submissions do not hold,   *)
(* so that no player id is a submission id), makeRoomCode() the one code   *)
(* of RoomCodes.                                                           *)
(***************************************************************************)
EXTENDS Integers, Sequences, FiniteSets, TLC

\* ---------------------------------------------------------------- bounds
MaxPlayers == 3
MaxSockets == 3
NumRedCards == 4
NumGreenCards == 1
MaxLobbySockets == 5
\* HAND_SIZE and WIN_SCORE are 7 and 10 in the source (index.js:12-13). The
\* code reads them as configuration only; the model bounds them so that a
\* whole game, from the deal to game_over, is within reach. A hand of 2 is
\* the least that lets a player send a second card in one round; with
\* NumRedCards = 4 the deal runs dry at the third seat, the case in which
\* dealToHandSize stops early.
HAND_SIZE == 2
WIN_SCORE == 2

\* ------------------------------------------------------ program constants
null == 0
noCard == <<>>

RoomCodes == {"ABC234"}
UnknownCode == "ZZZ999"

RED_CARD_POOL == [i \in 1..NumRedCards |-> <<"r", i - 1>>]
GREEN_CARD_POOL == [i \in 1..NumGreenCards |-> <<"g", i - 1>>]

CardText(card) == <<"text", card>>

VARIABLES
  rooms,      \* the registry: room code -> RoomState
  sockets,    \* socket id -> [status, roomCode, playerId] (socket.data)
  emitted,    \* the room:update snapshots the last handler broadcast
  lastEvent,  \* the last event handled: its type and the server:error it got
  joined,     \* the room:joined payload the last handler sent (<<>> for none)
  roundJudge  \* history: room code -> the judge whose pick closed the round
              \* that the room is showing in score or game_over (null else)

vars == <<rooms, sockets, emitted, lastEvent, joined, roundJudge>>

\* ------------------------------------------------------------- sequences
Range(s) == {s[i] : i \in DOMAIN s}

SeqPermutations(s) ==
  {t \in [DOMAIN s -> Range(s)] : \A i, j \in DOMAIN s : i # j => t[i] # t[j]}

RemoveAt(s, i) == SubSeq(s, 1, i - 1) \o SubSeq(s, i + 1, Len(s))

\* Array.prototype.findIndex and find, 1-based: the least of the indices
\* whose entries pass the test (hits), 0 when none does
FindIndex(hits) ==
  IF hits = {} THEN 0 ELSE CHOOSE i \in hits : \A j \in hits : i <= j

\* ------------------------------------------------------------ deck helpers
shuffle(cards) == SeqPermutations(cards)

\* a refill that leaves the recycled cards on the discard pile as well
refillKeepsDiscard(deck, discard) ==
  IF Len(deck) > 0 \/ Len(discard) = 0
    THEN {[deck |-> deck, discard |-> discard]}
    ELSE {[deck |-> deck \o recycled, discard |-> discard] : recycled \in shuffle(discard)}

\* the outcomes of refillDeckFromDiscard: [deck, discard]
refillDeckFromDiscard(deck, discard) ==
  IF Len(deck) > 0 \/ Len(discard) = 0
    THEN {[deck |-> deck, discard |-> discard]}
    ELSE {[deck |-> deck \o recycled, discard |-> <<>>] : recycled \in shuffle(discard)}

\* the outcomes of drawCard: [deck, discard, card] (deck.pop() takes the last)
drawCard(deck, discard) ==
  {IF Len(p.deck) = 0
     THEN [deck |-> p.deck, discard |-> p.discard, card |-> noCard]
     ELSE [deck |-> SubSeq(p.deck, 1, Len(p.deck) - 1), discard |-> p.discard,
           card |-> p.deck[Len(p.deck)]]
   : p \in refillDeckFromDiscard(deck, discard)}

\* ------------------------------------------------------------------ names
\* payload.playerName as the client of each connection sends it (the text of
\* its name field, "" when left empty): two connections send the same name,
\* and the first sends one that sorts after it
PlayerNames == <<"B", "A", "A", "", "B">>

\* the name connection s sends (the list is gone through again from its start
\* for connections beyond its length)
payloadName(s) == PlayerNames[((s - 1) % Len(PlayerNames)) + 1]

sanitizeName(input) == IF input = "" THEN "Player" ELSE input

\* the names in the order of String.prototype.localeCompare
NameOrder == <<"A", "B", "Player">>

NameRank(name) == CHOOSE i \in DOMAIN NameOrder : NameOrder[i] = name

localeCompare(a, b) ==
  IF NameRank(a) < NameRank(b) THEN -1 ELSE IF NameRank(a) > NameRank(b) THEN 1 ELSE 0

\* a comparator that puts the lower score first
compareLowestFirst(a, b) ==
  IF b.score # a.score THEN a.score - b.score ELSE localeCompare(a.name, b.name)

\* the comparator of toLeaderboard
compareForLeaderboard(a, b) ==
  IF b.score # a.score THEN b.score - a.score ELSE localeCompare(a.name, b.name)

\* Array.prototype.sort with the comparator of toLeaderboard; the sort is
\* stable: an entry goes behind every entry that does not sort after it
InsertSorted(sorted, entry) ==
  LET before == Cardinality({i \in DOMAIN sorted :
                               compareForLeaderboard(sorted[i], entry) <= 0})
  IN SubSeq(sorted, 1, before) \o <<entry>> \o SubSeq(sorted, before + 1, Len(sorted))

RECURSIVE SortFirst(_, _)
SortFirst(players, n) ==
  IF n = 0 THEN <<>> ELSE InsertSorted(SortFirst(players, n - 1), players[n])

toLeaderboard(players) ==
  LET sorted == SortFirst(players, Len(players))
  IN [i \in DOMAIN sorted |->
        [id |-> sorted[i].id, name |-> sorted[i].name, score |-> sorted[i].score]]

\* ------------------------------------------------------------ room helpers
createEmptyRoom(code, hostName, socketId) ==
  [code |-> code, hostPlayerId |-> 1, phase |-> "lobby", round |-> 0,
   judgeIndex |-> 0, submissions |-> <<>>, lastWinnerId |-> null,
   winningSubmissionId |-> null,
   players |-> <<[id |-> 1, name |-> sanitizeName(hostName), score |-> 0,
                  ready |-> FALSE, connected |-> TRUE, socketId |-> socketId]>>,
   privateHands |-> <<>>, redDeck |-> <<>>, redDiscard |-> <<>>,
   greenDeck |-> <<>>, greenDiscard |-> <<>>, currentGreenCard |-> noCard]

\* index (1-based) of the player found, 0 for null
getPlayerBySocket(room, socketId) ==
  FindIndex({i \in DOMAIN room.players : room.players[i].socketId = socketId})

getPlayerById(room, playerId) ==
  FindIndex({i \in DOMAIN room.players : room.players[i].id = playerId})

getConnectedPlayers(room) == SelectSeq(room.players, LAMBDA p : p.connected)

\* getJudge without the connected test: the seat at the stored index is taken
getJudgeScanNoSkip(room, offset) ==
  LET index == (room.judgeIndex + offset) % Len(room.players)
  IN [room |-> [room EXCEPT !.judgeIndex = index], judge |-> room.players[index + 1].id]

RECURSIVE getJudgeScan(_, _)
getJudgeScan(room, offset) ==
  IF offset >= Len(room.players)
    THEN [room |-> room, judge |-> null]
    ELSE LET index == (room.judgeIndex + offset) % Len(room.players)
             candidate == room.players[index + 1]
         IN IF candidate.connected
              THEN [room |-> [room EXCEPT !.judgeIndex = index], judge |-> candidate.id]
              ELSE getJudgeScan(room, offset + 1)

\* [room, judge]: the room after the call (judgeIndex may move), the judge's id
getJudge(room) ==
  IF Len(room.players) = 0
    THEN [room |-> room, judge |-> null]
    ELSE getJudgeScan(room, 0)

RECURSIVE getNextJudgeScan(_, _)
getNextJudgeScan(room, step) ==
  IF step > Len(room.players)
    THEN room.judgeIndex
    ELSE LET index == (room.judgeIndex + step) % Len(room.players)
         IN IF room.players[index + 1].connected
              THEN index
              ELSE getNextJudgeScan(room, step + 1)

getNextJudgeIndex(room) ==
  IF Len(room.players) = 0 THEN 0 ELSE getNextJudgeScan(room, 1)

\* the outcomes of initDecks
initDecks(room) ==
  {[room EXCEPT !.redDeck = red, !.redDiscard = <<>>, !.greenDeck = green,
                !.greenDiscard = <<>>, !.currentGreenCard = noCard]
   : red \in shuffle(RED_CARD_POOL), green \in shuffle(GREEN_CARD_POOL)}

HasHand(room, playerId) == playerId \in DOMAIN room.privateHands

\* the room after ensurePlayerHand
ensurePlayerHand(room, playerId) ==
  IF HasHand(room, playerId)
    THEN room
    ELSE [room EXCEPT !.privateHands =
            [p \in DOMAIN room.privateHands \cup {playerId} |->
               IF p = playerId THEN <<>> ELSE room.privateHands[p]]]

\* the outcomes of dealToHandSize from the seat-th player on
RECURSIVE dealFrom(_, _)
dealFrom(room, seat) ==
  IF seat > Len(room.players)
    THEN {room}
    ELSE LET id == room.players[seat].id
             r0 == ensurePlayerHand(room, id)
         IN IF Len(r0.privateHands[id]) >= HAND_SIZE
              THEN dealFrom(r0, seat + 1)
              ELSE UNION {IF d.card = noCard
                            THEN dealFrom([r0 EXCEPT !.redDeck = d.deck,
                                                     !.redDiscard = d.discard], seat + 1)
                            ELSE dealFrom([r0 EXCEPT !.redDeck = d.deck,
                                                     !.redDiscard = d.discard,
                                                     !.privateHands[id] = Append(@, d.card)],
                                          seat)
                          : d \in drawCard(r0.redDeck, r0.redDiscard)}

\* a deal that passes over the players who are not connected
RECURSIVE dealConnectedFrom(_, _)
dealConnectedFrom(room, seat) ==
  IF seat > Len(room.players)
    THEN {room}
    ELSE LET id == room.players[seat].id
             r0 == ensurePlayerHand(room, id)
         IN IF ~room.players[seat].connected \/ Len(r0.privateHands[id]) >= HAND_SIZE
              THEN dealConnectedFrom(r0, seat + 1)
              ELSE UNION {IF d.card = noCard
                            THEN dealConnectedFrom([r0 EXCEPT !.redDeck = d.deck,
                                                              !.redDiscard = d.discard],
                                                   seat + 1)
                            ELSE dealConnectedFrom([r0 EXCEPT !.redDeck = d.deck,
                                                              !.redDiscard = d.discard,
                                                              !.privateHands[id] = Append(@, d.card)],
                                                   seat)
                          : d \in drawCard(r0.redDeck, r0.redDiscard)}

dealToHandSizeConnectedOnly(room) == dealConnectedFrom(room, 1)

\* dealToHandSize that passes over the first player
dealToHandSizeFromSecond(room) == dealFrom(room, 2)

dealToHandSize(room) == dealFrom(room, 1)

\* removeCardFromHand without the splice: the card is returned and stays
removeCardFromHandKeepsCard(room, playerId, cardId) ==
  LET r0 == ensurePlayerHand(room, playerId)
      hand == r0.privateHands[playerId]
      cardIndex == FindIndex({i \in DOMAIN hand : hand[i] = cardId})
  IN IF cardIndex = 0
       THEN [room |-> r0, card |-> noCard]
       ELSE [room |-> r0, card |-> hand[cardIndex]]

\* removeCardFromHand that, when the player's hand lacks the card, takes it
\* from the hand of the first player who holds it
removeCardFromAnyHand(room, playerId, cardId) ==
  LET r0 == ensurePlayerHand(room, playerId)
      holders == {p \in DOMAIN r0.privateHands : cardId \in Range(r0.privateHands[p])}
      holder == IF cardId \in Range(r0.privateHands[playerId])
                  THEN playerId
                  ELSE CHOOSE p \in holders : \A q \in holders : p <= q
      hand == r0.privateHands[holder]
      cardIndex == FindIndex({i \in DOMAIN hand : hand[i] = cardId})
  IN IF holders = {}
       THEN [room |-> r0, card |-> noCard]
       ELSE [room |-> [r0 EXCEPT !.privateHands[holder] = RemoveAt(hand, cardIndex)],
             card |-> hand[cardIndex]]

\* [room, card]: removeCardFromHand; card = noCard when cardId is not in the hand
removeCardFromHand(room, playerId, cardId) ==
  LET r0 == ensurePlayerHand(room, playerId)
      hand == r0.privateHands[playerId]
      cardIndex == FindIndex({i \in DOMAIN hand : hand[i] = cardId})
  IN IF cardIndex = 0
       THEN [room |-> r0, card |-> noCard]
       ELSE [room |-> [r0 EXCEPT !.privateHands[playerId] = RemoveAt(hand, cardIndex)],
             card |-> hand[cardIndex]]

\* the outcomes of drawGreenForRound
drawGreenForRound(room) ==
  {[room EXCEPT !.greenDeck = d.deck, !.greenDiscard = d.discard,
                !.currentGreenCard = d.card]
   : d \in drawCard(room.greenDeck, room.greenDiscard)}

\* the number of connected players other than the judge
nonJudgeCount(room, judge) ==
  Len(SelectSeq(getConnectedPlayers(room), LAMBDA entry : entry.id # judge))

\* the completion check without the test expected > 0
resolveSubmitPhaseAlsoAtZero(room) ==
  IF room.phase # "submit"
    THEN room
    ELSE LET j == getJudge(room)
             expected == nonJudgeCount(j.room, j.judge)
         IN IF j.judge = null
              THEN j.room
              ELSE IF Len(j.room.submissions) >= expected
                     THEN [j.room EXCEPT !.phase = "judge_pick"]
                     ELSE j.room

resolveSubmitPhaseCompletion(room) ==
  IF room.phase # "submit"
    THEN room
    ELSE LET j == getJudge(room)
             expected == nonJudgeCount(j.room, j.judge)
         IN IF j.judge = null
              THEN j.room
              ELSE IF expected > 0 /\ Len(j.room.submissions) >= expected
                     THEN [j.room EXCEPT !.phase = "judge_pick"]
                     ELSE j.room

\* a public entry that copies the whole submission, playerId included
publicSubmissionWithOwner(submission) ==
  [id |-> submission.id, playerId |-> submission.playerId,
   cardId |-> submission.card, cardText |-> CardText(submission.card)]

\* one entry of the public submission list
publicSubmission(submission) ==
  [id |-> submission.id, cardId |-> submission.card,
   cardText |-> CardText(submission.card)]

\* a public player entry that also carries the player's hand
publicPlayerWithHand(room, player) ==
  [id |-> player.id, name |-> player.name, score |-> player.score,
   ready |-> player.ready, connected |-> player.connected,
   isHost |-> player.id = room.hostPlayerId,
   hand |-> IF HasHand(room, player.id) THEN room.privateHands[player.id] ELSE <<>>]

\* one entry of the public player list
publicPlayer(room, player) ==
  [id |-> player.id, name |-> player.name, score |-> player.score,
   ready |-> player.ready, connected |-> player.connected,
   isHost |-> player.id = room.hostPlayerId]

\* [room, snap]: the room after the call (getJudge may move judgeIndex) and the
\* public snapshot
toPublicRoomState(room) ==
  LET j == getJudge(room)
      r == j.room
  IN [room |-> r,
      snap |->
        [roomCode |-> r.code, phase |-> r.phase, round |-> r.round,
         hostPlayerId |-> r.hostPlayerId, judgePlayerId |-> j.judge,
         lastWinnerId |-> r.lastWinnerId,
         winningSubmissionId |-> r.winningSubmissionId,
         greenCard |-> IF r.currentGreenCard = noCard
                         THEN <<>>
                         ELSE <<[id |-> r.currentGreenCard,
                                 text |-> CardText(r.currentGreenCard)]>>,
         submissionCount |-> Len(r.submissions),
         expectedSubmissionCount |->
           IF j.judge # null THEN nonJudgeCount(r, j.judge) ELSE 0,
         players |-> [i \in DOMAIN r.players |-> publicPlayer(r, r.players[i])],
         leaderboard |-> toLeaderboard(r.players),
         winnerId |-> IF r.phase = "game_over" /\ Len(r.players) > 0
                        THEN toLeaderboard(r.players)[1].id ELSE null,
         submissions |->
           IF r.phase \in {"judge_pick", "score", "game_over"}
             THEN [i \in DOMAIN r.submissions |-> publicSubmission(r.submissions[i])]
             ELSE <<>>]]

\* the room after emitPlayerState for the seat-th player on (player:state is
\* private; the call creates the hand entry of a connected player)
RECURSIVE emitPlayerStatesFrom(_, _)
emitPlayerStatesFrom(room, seat) ==
  IF seat > Len(room.players)
    THEN room
    ELSE LET player == room.players[seat]
         IN IF ~player.connected \/ player.socketId = null
              THEN emitPlayerStatesFrom(room, seat + 1)
              ELSE emitPlayerStatesFrom(ensurePlayerHand(room, player.id), seat + 1)

emitAllPlayerStates(room) == emitPlayerStatesFrom(room, 1)

\* emitRoomUpdate that drops what getJudge wrote: the room keeps the judge
\* index it had before the broadcast
emitRoomUpdateUnhealed(room) ==
  [room |-> emitAllPlayerStates(room), snap |-> toPublicRoomState(room).snap]

\* [room, snap]: the room after emitRoomUpdate and the snapshot it broadcast
emitRoomUpdate(room) ==
  LET pub == toPublicRoomState(room)
  IN [room |-> emitAllPlayerStates(pub.room), snap |-> pub.snap]

\* beginSubmitPhase without the reset of lastWinnerId
openSubmitPhaseKeepsWinner(room) ==
  [room EXCEPT !.phase = "submit", !.submissions = <<>>, !.winningSubmissionId = null]

\* beginSubmitPhase, its first four assignments
openSubmitPhase(room) ==
  [room EXCEPT !.phase = "submit", !.submissions = <<>>,
               !.lastWinnerId = null, !.winningSubmissionId = null]

\* the outcomes [room, snap] of beginSubmitPhase
beginSubmitPhase(room) ==
  LET r1 == openSubmitPhase(room)
      r2 == IF r1.currentGreenCard # noCard
              THEN [r1 EXCEPT !.greenDiscard = Append(@, r1.currentGreenCard)]
              ELSE r1
  IN {emitRoomUpdate(r4) : r4 \in UNION {dealToHandSize(r3) : r3 \in drawGreenForRound(r2)}}

\* a collector that never deletes
ensureHostRoomKept(registry, roomCode) == registry

\* the registry after ensureHostRoomNotEmpty
ensureHostRoomNotEmpty(registry, roomCode) ==
  IF roomCode \notin DOMAIN registry
    THEN registry
    ELSE IF \E i \in DOMAIN registry[roomCode].players :
              registry[roomCode].players[i].connected
           THEN registry
           ELSE [c \in DOMAIN registry \ {roomCode} |-> registry[c]]

\* ---------------------------------------------------------------- handlers
\* A handler's outcomes are records [room, snaps, error]: the room it leaves,
\* the snapshots it broadcast, and the server:error message ("" for none).
ok(room, snaps) == [room |-> room, snaps |-> snaps, error |-> ""]
fail(room, message) == [room |-> room, snaps |-> <<>>, error |-> message]

Open(s) == sockets[s].status = "open"

\* socket ids are unique per connection: the next connection takes the next id
NextSocket(s) == sockets[s].status = "new" /\ \A t \in 1..(s - 1) : sockets[t].status # "new"

Done(type, message) == lastEvent' = [type |-> type, error |-> message]

Bind(s, code, playerId) ==
  [sockets EXCEPT ![s] = [status |-> "open", roomCode |-> code, playerId |-> playerId]]

\* The history of the judge: an accepted round:judge_pick records the player
\* it accepted as judge; the record lasts while the room stays in score or
\* game_over.
Track ==
  roundJudge' =
    [c \in DOMAIN rooms' |->
       IF rooms'[c].phase \notin {"score", "game_over"}
         THEN null
         ELSE IF /\ lastEvent'.type = "round:judge_pick"
                 /\ lastEvent'.error = ""
                 /\ c \in DOMAIN rooms
                 /\ rooms[c].phase = "judge_pick"
                THEN getJudge(rooms[c]).judge
                ELSE IF c \in DOMAIN roundJudge THEN roundJudge[c] ELSE null]

Init ==
  /\ roundJudge = <<>>
  /\ joined = <<>>
  /\ rooms = <<>>
  /\ sockets = [s \in 1..MaxSockets |-> [status |-> "new", roomCode |-> "", playerId |-> null]]
  /\ emitted = <<>>
  /\ lastEvent = [type |-> "listen", error |-> ""]

\* the id of a player of a room that was replaced in the registry: nanoid(12)
\* gave it, so it is no id of the room that took the code
replacedPlayerId == -1

\* socket.on("room:create") when makeRoomCode() yields code: rooms.set puts
\* the new room under the code, whatever the registry held there
RoomCreateWithCode(s, code) ==
  LET e == emitRoomUpdate(createEmptyRoom(code, payloadName(s), s))
  IN /\ rooms' = [c \in DOMAIN rooms \cup {code} |-> IF c = code THEN e.room ELSE rooms[c]]
     /\ sockets' = [t \in DOMAIN sockets |->
                      IF t = s
                        THEN [status |-> "open", roomCode |-> code,
                              playerId |-> e.room.hostPlayerId]
                        ELSE IF sockets[t].roomCode = code
                          THEN [sockets[t] EXCEPT !.playerId = replacedPlayerId]
                          ELSE sockets[t]]
     /\ joined' = <<[roomCode |-> code, playerId |-> e.room.hostPlayerId,
                     isHost |-> TRUE]>>
     /\ emitted' = <<e.snap>>
     /\ Done("room:create", "")

\* socket.on("room:create"), makeRoomCode() yielding a code no room has used
RoomCreate(s) ==
  /\ NextSocket(s)
  /\ \E code \in RoomCodes :
       /\ code \notin DOMAIN rooms
       /\ \A t \in DOMAIN sockets : sockets[t].roomCode # code
       /\ RoomCreateWithCode(s, code)
  /\ Track

\* socket.on("room:create"), makeRoomCode() yielding any code of its range
RoomCreateAnyCode(s) ==
  /\ NextSocket(s)
  /\ \E code \in RoomCodes : RoomCreateWithCode(s, code)
  /\ Track

\* the name of the existing player after a room:join with playerName
rejoinedName(room, seat, playerName) ==
  IF playerName # "Player" THEN playerName ELSE room.players[seat].name

\* a reattach that hands the player an empty hand
rejoinWithEmptyHand(room, seat, s) ==
  emitRoomUpdate([room EXCEPT !.players[seat].connected = TRUE,
                              !.players[seat].socketId = s,
                              !.players[seat].name =
                                 rejoinedName(room, seat, sanitizeName(payloadName(s))),
                              !.privateHands[room.players[seat].id] = <<>>])

\* the existing player's branch of room:join (reattach)
rejoin(room, seat, s) ==
  emitRoomUpdate([room EXCEPT !.players[seat].connected = TRUE,
                              !.players[seat].socketId = s,
                              !.players[seat].name =
                                 rejoinedName(room, seat, sanitizeName(payloadName(s)))])

\* the new player is put in front of the others
joinAsNewInFront(room, playerId, s) ==
  emitRoomUpdate([room EXCEPT !.players =
    <<[id |-> playerId, name |-> sanitizeName(payloadName(s)), score |-> 0,
       ready |-> FALSE, connected |-> TRUE, socketId |-> s]>> \o @])

\* the new player's branch of room:join
joinAsNew(room, playerId, s) ==
  emitRoomUpdate([room EXCEPT !.players =
    Append(@, [id |-> playerId, name |-> sanitizeName(payloadName(s)), score |-> 0,
               ready |-> FALSE, connected |-> TRUE, socketId |-> s])])

\* socket.on("room:join")
RoomJoin(s, roomCode, requestedPlayerId) ==
  /\ Open(s) \/ NextSocket(s)
  /\ IF roomCode \notin DOMAIN rooms
       THEN /\ Done("room:join", "Room not found.")
            /\ sockets' = [sockets EXCEPT ![s].status = "open"]
            /\ joined' = <<>>
            /\ emitted' = <<>>
            /\ UNCHANGED rooms
       ELSE LET room == rooms[roomCode]
                seat == IF requestedPlayerId # null
                          THEN getPlayerById(room, requestedPlayerId) ELSE 0
            IN IF seat # 0
                 THEN LET e == rejoin(room, seat, s)
                      IN /\ rooms' = [rooms EXCEPT ![roomCode] = e.room]
                         /\ sockets' = Bind(s, roomCode, room.players[seat].id)
                         /\ joined' = <<[roomCode |-> room.code,
                                         playerId |-> room.players[seat].id,
                                         isHost |-> room.players[seat].id = room.hostPlayerId,
                                         rejoined |-> TRUE]>>
                         /\ emitted' = <<e.snap>>
                         /\ Done("room:join", "")
                 ELSE IF room.phase # "lobby"
                        THEN /\ Done("room:join",
                                     "Game already started. New joins are limited to the lobby.")
                             /\ sockets' = [sockets EXCEPT ![s].status = "open"]
                             /\ joined' = <<>>
                             /\ emitted' = <<>>
                             /\ UNCHANGED rooms
                        ELSE /\ Len(room.players) < MaxPlayers
                             /\ LET playerId == Len(room.players) + 1
                                    e == joinAsNew(room, playerId, s)
                                IN /\ rooms' = [rooms EXCEPT ![roomCode] = e.room]
                                   /\ sockets' = Bind(s, roomCode, playerId)
                                   /\ joined' = <<[roomCode |-> room.code,
                                                   playerId |-> playerId,
                                                   isHost |-> playerId = room.hostPlayerId]>>
                                   /\ emitted' = <<e.snap>>
                                   /\ Done("room:join", "")
  /\ Track

\* a disconnect that leaves the player's ready flag as it was
disconnectPlayerKeepsReady(room, seat) ==
  LET r1 == [room EXCEPT !.players[seat].connected = FALSE,
                         !.players[seat].socketId = null]
      found == FindIndex({i \in DOMAIN r1.players : r1.players[i].connected})
      nextHost == IF found # 0 THEN found ELSE IF Len(r1.players) > 0 THEN 1 ELSE 0
      r2 == IF r1.hostPlayerId = r1.players[seat].id /\ nextHost # 0
              THEN [r1 EXCEPT !.hostPlayerId = r1.players[nextHost].id]
              ELSE r1
  IN emitRoomUpdate(resolveSubmitPhaseCompletion(r2))

\* the room after the disconnect handler marked the seat-th player, moved the
\* host and re-checked the submit phase; and what emitRoomUpdate then gives
disconnectPlayer(room, seat) ==
  LET r1 == [room EXCEPT !.players[seat].connected = FALSE,
                         !.players[seat].socketId = null,
                         !.players[seat].ready = FALSE]
      found == FindIndex({i \in DOMAIN r1.players : r1.players[i].connected})
      nextHost == IF found # 0 THEN found ELSE IF Len(r1.players) > 0 THEN 1 ELSE 0
      r2 == IF r1.hostPlayerId = r1.players[seat].id /\ nextHost # 0
              THEN [r1 EXCEPT !.hostPlayerId = r1.players[nextHost].id]
              ELSE r1
  IN emitRoomUpdate(resolveSubmitPhaseCompletion(r2))

\* socket.on("disconnect")
Disconnect(s) ==
  /\ Open(s)
  /\ sockets' = [sockets EXCEPT ![s].status = "closed"]
  /\ joined' = <<>>
  /\ Done("disconnect", "")
  /\ LET roomCode == sockets[s].roomCode
         playerId == sockets[s].playerId
     IN IF roomCode = "" \/ playerId = null \/ roomCode \notin DOMAIN rooms
          THEN /\ emitted' = <<>>
               /\ UNCHANGED rooms
          ELSE LET seat == getPlayerById(rooms[roomCode], playerId)
               IN IF seat = 0
                    THEN /\ emitted' = <<>>
                         /\ UNCHANGED rooms
                    ELSE LET e == disconnectPlayer(rooms[roomCode], seat)
                         IN /\ rooms' = ensureHostRoomNotEmpty(
                                          [rooms EXCEPT ![roomCode] = e.room], roomCode)
                            /\ emitted' = <<e.snap>>
  /\ Track

\* the room a command of socket s names (payload.roomCode is the client's
\* state.roomCode, the code socket.data.roomCode holds)
CommandRoom(s) == rooms[sockets[s].roomCode]

\* The common frame of the handlers below: the room is looked up under
\* socket.data.roomCode; outcomes are the handler's outcomes on that room,
\* read only when the room exists.
Command(type, s, outcomes) ==
  /\ UNCHANGED sockets
  /\ joined' = <<>>
  /\ IF sockets[s].roomCode \notin DOMAIN rooms
       THEN /\ Done(type, "Room not found.")
            /\ emitted' = <<>>
            /\ UNCHANGED rooms
       ELSE \E o \in outcomes :
              /\ rooms' = [rooms EXCEPT ![sockets[s].roomCode] = o.room]
              /\ emitted' = o.snaps
              /\ Done(type, o.error)
  /\ Track

roomReady(room, s) ==
  LET seat == getPlayerBySocket(room, s)
  IN IF seat = 0
       THEN {fail(room, "You are not joined to this room.")}
       ELSE LET e == emitRoomUpdate([room EXCEPT !.players[seat].ready = ~@])
            IN {ok(e.room, <<e.snap>>)}

\* socket.on("room:ready")
RoomReady(s) ==
  /\ Open(s)
  /\ Command("room:ready", s, roomReady(CommandRoom(s), s))

\* the reset that game:start and game:rematch both perform, up to and
\* including their two broadcasts
resetAndBegin(room) ==
  LET r1 == [room EXCEPT !.round = 1, !.phase = "next_round", !.judgeIndex = 0,
                         !.submissions = <<>>, !.lastWinnerId = null,
                         !.winningSubmissionId = null, !.privateHands = <<>>,
                         !.players = [i \in DOMAIN room.players |->
                                        [room.players[i] EXCEPT !.score = 0,
                                                                !.ready = FALSE]]]
      dealt == UNION {dealToHandSize(r2) : r2 \in initDecks(r1)}
  IN UNION {LET e == emitRoomUpdate(r3)
            IN {ok(b.room, <<e.snap, b.snap>>) : b \in beginSubmitPhase(e.room)}
            : r3 \in dealt}

gameStart(room, s) ==
  LET seat == getPlayerBySocket(room, s)
  IN IF seat = 0
       THEN {fail(room, "You are not joined to this room.")}
       ELSE IF room.players[seat].id # room.hostPlayerId
         THEN {fail(room, "Only the host can start the game.")}
         ELSE IF Len(getConnectedPlayers(room)) < 2
           THEN {fail(room, "At least 2 connected players are required to start.")}
           ELSE resetAndBegin(room)

\* socket.on("game:start")
GameStart(s) ==
  /\ Open(s)
  /\ Command("game:start", s, gameStart(CommandRoom(s), s))

\* judge_pick: every submitted card goes to the red discard pile
discardSubmissions(room) ==
  [room EXCEPT !.redDiscard = @ \o [i \in DOMAIN room.submissions |->
                                     room.submissions[i].card]]

\* the winner is recorded and gets no point
scoreWinnerNoPoint(room, winner, submissionId) ==
  [room EXCEPT !.winningSubmissionId = submissionId,
               !.lastWinnerId = room.players[winner].id]

\* the point is counted twice
scoreWinnerTwice(room, winner, submissionId) ==
  [room EXCEPT !.winningSubmissionId = submissionId,
               !.players[winner].score = @ + 2,
               !.lastWinnerId = room.players[winner].id]

\* judge_pick: the winning submission is recorded and its owner (the
\* winner-th player) gets the point
scoreWinner(room, winner, submissionId) ==
  [room EXCEPT !.winningSubmissionId = submissionId,
               !.players[winner].score = @ + 1,
               !.lastWinnerId = room.players[winner].id]

\* the game ends only when the winner has passed WIN_SCORE
reachedWinScoreLate(room, winner) == room.players[winner].score > WIN_SCORE

\* judge_pick: winner.score >= WIN_SCORE
reachedWinScore(room, winner) == room.players[winner].score >= WIN_SCORE

\* a lookup that answers with the first submission when the id is unknown
findSubmissionOrFirst(room, submissionId) ==
  LET hits == {i \in DOMAIN room.submissions : room.submissions[i].id = submissionId}
  IN IF hits = {} /\ room.submissions # <<>> THEN 1 ELSE FindIndex(hits)

\* room.submissions.get(submissionId): the index of the submission, 0 for none
findSubmission(room, submissionId) ==
  FindIndex({i \in DOMAIN room.submissions : room.submissions[i].id = submissionId})

\* round:judge_pick with payload.submissionId
judgePick(room, s, submissionId) ==
  IF room.phase # "judge_pick"
    THEN {fail(room, "The room is not in judge pick phase.")}
    ELSE
      LET j == getJudge(room)
          r == j.room
          acting == getPlayerBySocket(r, s)
          picked == findSubmission(r, submissionId)
      IN IF j.judge = null \/ acting = 0 \/ j.judge # r.players[IF acting = 0 THEN 1 ELSE acting].id
           THEN {fail(r, "Only the active judge can pick the winner.")}
           ELSE IF picked = 0
             THEN {fail(r, "Winner must be one of the submitted cards.")}
             ELSE
               LET winner == getPlayerById(r, r.submissions[picked].playerId)
               IN IF winner = 0
                    THEN {fail(r, "Winner not found.")}
                    ELSE
                      LET r1 == scoreWinner(discardSubmissions(r), winner, submissionId)
                      IN IF reachedWinScore(r1, winner)
                           THEN LET e == emitRoomUpdate(
                                           [r1 EXCEPT !.phase = "game_over",
                                                      !.submissions = <<>>,
                                                      !.winningSubmissionId = null,
                                                      !.currentGreenCard = noCard])
                                IN {ok(e.room, <<e.snap>>)}
                           ELSE {LET e == emitRoomUpdate(r2) IN ok(e.room, <<e.snap>>)
                                 : r2 \in dealToHandSize([r1 EXCEPT !.phase = "score"])}

\* socket.on("round:judge_pick")
RoundJudgePick(s, submissionId) ==
  /\ Open(s)
  /\ Command("round:judge_pick", s, judgePick(CommandRoom(s), s, submissionId))

roundNext(room, s) ==
  IF room.phase # "score"
    THEN {fail(room, "The room is not ready for the next round.")}
    ELSE
      LET acting == getPlayerBySocket(room, s)
      IN IF acting = 0 \/ room.players[IF acting = 0 THEN 1 ELSE acting].id # room.hostPlayerId
           THEN {fail(room, "Only the host can advance to the next round.")}
           ELSE LET e == emitRoomUpdate([room EXCEPT !.judgeIndex = getNextJudgeIndex(room),
                                                     !.round = @ + 1,
                                                     !.phase = "next_round"])
                IN {ok(b.room, <<e.snap, b.snap>>) : b \in beginSubmitPhase(e.room)}

\* socket.on("round:next")
RoundNext(s) ==
  /\ Open(s)
  /\ Command("round:next", s, roundNext(CommandRoom(s), s))

gameRematch(room, s) ==
  IF room.phase # "game_over"
    THEN {fail(room, "Rematch is only available after game over.")}
    ELSE
      LET acting == getPlayerBySocket(room, s)
      IN IF acting = 0 \/ room.players[IF acting = 0 THEN 1 ELSE acting].id # room.hostPlayerId
           THEN {fail(room, "Only the host can start a rematch.")}
           ELSE IF Len(getConnectedPlayers(room)) < 2
             THEN {fail(room, "At least 2 connected players are required to rematch.")}
             ELSE resetAndBegin(room)

\* socket.on("game:rematch")
GameRematch(s) ==
  /\ Open(s)
  /\ Command("game:rematch", s, gameRematch(CommandRoom(s), s))

\* nanoid(10) for a submission of the room: an id none of its submissions has
RECURSIVE freshFrom(_, _)
freshFrom(room, n) ==
  IF \E i \in DOMAIN room.submissions : room.submissions[i].id = -n
    THEN freshFrom(room, n + 1)
    ELSE -n

newSubmissionId(room) == freshFrom(room, 1)

\* round:submit with payload.cardId
roundSubmit(room, s, cardId) ==
  IF room.phase # "submit"
    THEN {fail(room, "Submissions are not open.")}
    ELSE
      LET seat == getPlayerBySocket(room, s)
      IN IF seat = 0 \/ ~room.players[IF seat = 0 THEN 1 ELSE seat].connected
           THEN {fail(room, "You are not an active player in this room.")}
           ELSE
             LET j == getJudge(room)
                 r == j.room
                 playerId == r.players[seat].id
             IN IF j.judge = null
                  THEN {fail(r, "No active judge available.")}
                  ELSE IF playerId = j.judge
                    THEN {fail(r, "The judge cannot submit a card.")}
                    ELSE IF \E i \in DOMAIN r.submissions : r.submissions[i].id = playerId
                      THEN {fail(r, "You already submitted this round.")}
                      ELSE IF cardId = noCard
                        THEN {fail(r, "Card id is required.")}
                        ELSE
                          LET taken == removeCardFromHand(r, playerId, cardId)
                          IN IF taken.card = noCard
                               THEN {fail(taken.room, "Card must be in your hand.")}
                               ELSE LET e == emitRoomUpdate(resolveSubmitPhaseCompletion(
                                               [taken.room EXCEPT !.submissions =
                                                  Append(@, [id |-> newSubmissionId(taken.room),
                                                             playerId |-> playerId,
                                                             card |-> taken.card])]))
                                    IN {ok(e.room, <<e.snap>>)}

\* socket.on("round:submit")
RoundSubmit(s, cardId) ==
  /\ Open(s)
  /\ Command("round:submit", s, roundSubmit(CommandRoom(s), s, cardId))

Sockets == 1..MaxSockets
CardIds == Range(RED_CARD_POOL)
SubmissionIds == {-n : n \in 1..MaxPlayers}
PlayerIds == 1..MaxPlayers

\* The phase test of the client's canReady and canStart: the lobby buttons
\* are enabled only while the client shows the lobby.
showsLobby(s) ==
  sockets[s].roomCode \in DOMAIN rooms => rooms[sockets[s].roomCode].phase = "lobby"

ClientReady(s) ==
  /\ showsLobby(s)
  /\ RoomReady(s)

ClientStart(s) ==
  /\ showsLobby(s)
  /\ GameStart(s)

\* a room:join as the first message of a new connection
ConnectAndJoin(s, roomCode, playerId) ==
  /\ NextSocket(s)
  /\ RoomJoin(s, roomCode, playerId)

\* Every event, each join on a connection of its own, room:ready and
\* game:start as the client sends them.
Next ==
  \/ \E s \in Sockets : RoomCreate(s)
  \/ \E s \in Sockets, roomCode \in RoomCodes \cup {UnknownCode}, playerId \in PlayerIds \cup {null} :
       ConnectAndJoin(s, roomCode, playerId)
  \/ \E s \in Sockets : ClientReady(s)
  \/ \E s \in Sockets : ClientStart(s)
  \/ \E s \in Sockets, cardId \in CardIds : RoundSubmit(s, cardId)
  \/ \E s \in Sockets, submissionId \in SubmissionIds : RoundJudgePick(s, submissionId)
  \/ \E s \in Sockets : RoundNext(s)
  \/ \E s \in Sockets : GameRematch(s)
  \/ \E s \in Sockets : Disconnect(s)

Spec == Init /\ [][Next]_vars

\* The lobby commands with room:ready and game:start sent in any phase (a
\* client that does not gate them), without the round commands.
NextUngated ==
  \/ \E s \in Sockets : RoomCreate(s)
  \/ \E s \in Sockets, playerId \in PlayerIds \cup {null} :
       ConnectAndJoin(s, "ABC234", playerId)
  \/ \E s \in Sockets : RoomReady(s)
  \/ \E s \in Sockets : GameStart(s)
  \/ \E s \in Sockets : Disconnect(s)

SpecUngated == Init /\ [][NextUngated]_vars

\* The lobby alone, with more connections: rooms are created, joined, left
\* and rejoined, and no game is started.
InitLobby ==
  /\ roundJudge = <<>>
  /\ joined = <<>>
  /\ rooms = <<>>
  /\ sockets = [s \in 1..MaxLobbySockets |->
                  [status |-> "new", roomCode |-> "", playerId |-> null]]
  /\ emitted = <<>>
  /\ lastEvent = [type |-> "listen", error |-> ""]

LobbySockets == 1..MaxLobbySockets

NextLobby ==
  \/ \E s \in LobbySockets : RoomCreate(s)
  \/ \E s \in LobbySockets, playerId \in PlayerIds \cup {null} :
       ConnectAndJoin(s, "ABC234", playerId)
  \/ \E s \in LobbySockets : RoomReady(s)
  \/ \E s \in LobbySockets : Disconnect(s)

SpecLobby == InitLobby /\ [][NextLobby]_vars

\* ----------------------------------------------------------- the red piles
\* One pass of the loop of dealToHandSize for the player with the given id:
\* a card is drawn and, unless there is none, pushed on the hand.
drawIntoHand(room, id) ==
  {IF d.card = noCard
     THEN [room EXCEPT !.redDeck = d.deck, !.redDiscard = d.discard]
     ELSE [room EXCEPT !.redDeck = d.deck, !.redDiscard = d.discard,
                       !.privateHands[id] = Append(@, d.card)]
   : d \in drawCard(room.redDeck, room.redDiscard)}

\* a room of two players in a round, as beginSubmitPhase has it before it
\* deals, with the given red piles and hands
RoomWithPiles(deck, discard, hand1, hand2) ==
  [createEmptyRoom("ABC234", payloadName(1), 1) EXCEPT
     !.phase = "submit", !.round = 1,
     !.players = Append(@, [id |-> 2, name |-> sanitizeName(payloadName(2)),
                            score |-> 0, ready |-> FALSE, connected |-> TRUE,
                            socketId |-> 2]),
     !.privateHands = <<hand1, hand2>>,
     !.redDeck = deck, !.redDiscard = discard,
     !.currentGreenCard = GREEN_CARD_POOL[1]]

\* The red cards laid out in every order over draw pile, discard pile and the
\* two hands (the rest are submitted): hands hold at most HAND_SIZE cards;
\* the draw pile holds cards only if the discard pile does.
InitPiles ==
  /\ \E order \in shuffle(RED_CARD_POOL) :
       \E a, b, c, d \in 0..NumRedCards :
         /\ a <= b /\ b <= c /\ c <= d
         /\ c - b <= HAND_SIZE /\ d - c <= HAND_SIZE
         /\ a > 0 => b > a
         /\ rooms = [code \in RoomCodes |->
                       RoomWithPiles(SubSeq(order, 1, a), SubSeq(order, a + 1, b),
                                     SubSeq(order, b + 1, c), SubSeq(order, c + 1, d))]
  /\ sockets = [s \in 1..MaxSockets |->
                  IF s <= 2
                    THEN [status |-> "open", roomCode |-> "ABC234", playerId |-> s]
                    ELSE [status |-> "new", roomCode |-> "", playerId |-> null]]
  /\ emitted = <<>>
  /\ joined = <<>>
  /\ roundJudge = [code \in RoomCodes |-> null]
  /\ lastEvent = [type |-> "listen", error |-> ""]

\* drawCard(room.redDeck, room.redDiscard) for a hand that is not full
DrawIntoHand(seat) ==
  \E code \in DOMAIN rooms :
    /\ seat \in DOMAIN rooms[code].players
    /\ Len(rooms[code].privateHands[rooms[code].players[seat].id]) < HAND_SIZE
    /\ \E r \in drawIntoHand(rooms[code], rooms[code].players[seat].id) :
         rooms' = [rooms EXCEPT ![code] = r]
    /\ Done("drawCard", "")
    /\ UNCHANGED <<sockets, emitted, joined, roundJudge>>

PileSeats == 1..2

NextPiles == \E seat \in PileSeats : DrawIntoHand(seat)

SpecPiles == InitPiles /\ [][NextPiles]_vars

\* The lobby with room codes drawn as customAlphabet draws them: at random,
\* a code in use included.
NextAnyCode ==
  \/ \E s \in LobbySockets : RoomCreateAnyCode(s)
  \/ \E s \in LobbySockets, playerId \in PlayerIds \cup {null} :
       ConnectAndJoin(s, "ABC234", playerId)
  \/ \E s \in LobbySockets : RoomReady(s)
  \/ \E s \in LobbySockets : Disconnect(s)

SpecAnyCode == InitLobby /\ [][NextAnyCode]_vars

\* ------------------------------------------------------------ observations
Rooms == {rooms[c] : c \in DOMAIN rooms}

Started(room) == room.phase \in {"submit", "judge_pick", "score", "game_over"}

Accepted(type) == lastEvent.type = type /\ lastEvent.error = ""

Occurrences(seq, x) == Cardinality({i \in DOMAIN seq : seq[i] = x})

HandOccurrences(room, card) ==
  Cardinality({pi \in (DOMAIN room.privateHands) \X (1..NumRedCards) :
                 /\ pi[2] \in DOMAIN room.privateHands[pi[1]]
                 /\ room.privateHands[pi[1]][pi[2]] = card})

SubmissionOccurrences(room, card) ==
  Cardinality({i \in DOMAIN room.submissions : room.submissions[i].card = card})

\* how often a red card occurs in the piles and the hands
RedHeld(room, card) ==
  Occurrences(room.redDeck, card) + Occurrences(room.redDiscard, card)
    + HandOccurrences(room, card)

ConnectedSeats(room) == {i \in DOMAIN room.players : room.players[i].connected}

\* ------------------------------------------------------------------ claims

\* C1 as stated: after a game start every red catalog card occurs exactly
\* once across redDeck, redDiscard, the hands and the submissions, in each of
\* the phases submit, judge_pick, score and game_over.
C1_ConservationWithSubmissions ==
  \A room \in Rooms : Started(room) =>
    \A card \in Range(RED_CARD_POOL) :
      RedHeld(room, card) + SubmissionOccurrences(room, card) = 1

\* C1 as amended: after a game start every red catalog card occurs exactly
\* once across redDeck, redDiscard, the hands and, while the phase is submit
\* or judge_pick, the submissions; in score and game_over it occurs exactly
\* once across redDeck, redDiscard and the hands alone (the submissions that
\* score still lists were already moved to redDiscard).
C1_Conservation ==
  \A room \in Rooms : Started(room) =>
    \A card \in Range(RED_CARD_POOL) :
      RedHeld(room, card)
        + (IF room.phase \in {"submit", "judge_pick"}
             THEN SubmissionOccurrences(room, card) ELSE 0) = 1

\* C1 witness: a judge pick has put the room in score with the round's
\* submissions still listed.
C1_Witness ==
  \E room \in Rooms :
    /\ Accepted("round:judge_pick")
    /\ room.phase = "score"
    /\ room.submissions # <<>>

\* C2 as stated: the submissions of a room hold at most one submission per
\* player id.
C2_NoDoubleSubmission ==
  \A room \in Rooms :
    \A i, k \in DOMAIN room.submissions :
      i # k => room.submissions[i].playerId # room.submissions[k].playerId

\* C3: no entry of a broadcast snapshot carries a player id: each has the
\* fields id, cardId and cardText only and its id is no player's id; a
\* snapshot in phase submit lists no submission.
C3_Anonymity ==
  \A n \in DOMAIN emitted :
    /\ emitted[n].phase = "submit" => emitted[n].submissions = <<>>
    /\ \A k \in DOMAIN emitted[n].submissions :
         /\ DOMAIN emitted[n].submissions[k] = {"id", "cardId", "cardText"}
         /\ \A i \in DOMAIN emitted[n].players :
              emitted[n].submissions[k].id # emitted[n].players[i].id

\* C3 witness: a snapshot in judge_pick that lists the submitted cards.
C3_Witness ==
  \E n \in DOMAIN emitted :
    /\ emitted[n].phase = "judge_pick"
    /\ emitted[n].submissions # <<>>

\* C4, the snapshots: lastWinnerId is null in lobby, submit and judge_pick
\* and names a player in score and game_over.
C4_SnapshotWinner ==
  \A n \in DOMAIN emitted :
    /\ emitted[n].phase \in {"lobby", "submit", "judge_pick"} =>
         emitted[n].lastWinnerId = null
    /\ emitted[n].phase \in {"score", "game_over"} =>
         \E i \in DOMAIN emitted[n].players :
           emitted[n].lastWinnerId = emitted[n].players[i].id

\* C4, the pick: the snapshot of an accepted judge pick names the owner of
\* the submission that was picked (the one whose owner gained the point).
C4_PickNamesOwner ==
  \A c \in DOMAIN rooms \cap DOMAIN rooms' :
    (lastEvent'.type = "round:judge_pick" /\ lastEvent'.error = "") =>
      \E k \in DOMAIN rooms[c].submissions :
        LET owner == rooms[c].submissions[k].playerId
            seat == getPlayerById(rooms[c], owner)
        IN /\ rooms'[c].players[seat].score = rooms[c].players[seat].score + 1
           /\ rooms'[c].phase = "score" =>
                rooms'[c].winningSubmissionId = rooms[c].submissions[k].id
           /\ \A n \in DOMAIN emitted' : emitted'[n].lastWinnerId = owner

\* C4, after the pick: while the room stays in score or game_over the
\* winner's id does not change.
C4_WinnerKept ==
  \A c \in DOMAIN rooms \cap DOMAIN rooms' :
    (rooms[c].phase \in {"score", "game_over"} /\ rooms'[c].phase = rooms[c].phase) =>
      rooms'[c].lastWinnerId = rooms[c].lastWinnerId

WithConnectivity(room, index, up) ==
  [room EXCEPT !.judgeIndex = index,
               !.players = [i \in DOMAIN room.players |->
                              [room.players[i] EXCEPT !.connected = (i \in up)]]]

\* the seat (1-based) that is offset seats after the stored judge index
SeatAfter(room, offset) == ((room.judgeIndex + offset) % Len(room.players)) + 1

\* getJudge answers with the first connected player at or after judgeIndex
\* in cyclic seat order, and with no judge only when nobody is connected
JudgeSkips(room) ==
  LET judge == getJudge(room).judge
  IN IF ConnectedSeats(room) = {}
       THEN judge = null
       ELSE \E offset \in 0..(Len(room.players) - 1) :
              /\ room.players[SeatAfter(room, offset)].connected
              /\ \A before \in 0..(offset - 1) :
                   ~room.players[SeatAfter(room, before)].connected
              /\ judge = room.players[SeatAfter(room, offset)].id
              /\ getJudge(room).room.judgeIndex = SeatAfter(room, offset) - 1

\* C5: for the players of every reachable room, under every stored judge
\* index and every pattern of connected seats that disconnects and rejoins
\* can leave, judge lookup returns the first connected player at or after the
\* stored index in cyclic seat order, and no judge only when every player is
\* disconnected.
C5_JudgeSkip ==
  \A room \in Rooms :
    \A index \in 0..(Len(room.players) - 1), up \in SUBSET DOMAIN room.players :
      JudgeSkips(WithConnectivity(room, index, up))

\* C5 witness: the judge of round 1 disconnected and the lookup of the
\* disconnect handler moved on to the next seat.
C5_Witness ==
  \E room \in Rooms :
    /\ lastEvent.type = "disconnect"
    /\ room.phase = "submit"
    /\ Len(room.players) = 3
    /\ ~room.players[1].connected
    /\ room.players[2].connected
    /\ room.judgeIndex = 1
    /\ emitted[1].judgePlayerId = room.players[2].id

\* C6 as stated: when a room moves from submit to judge_pick, every connected
\* player other than the judge has a submission in the round.
C6_AllSubmittedAtJudgePick ==
  [][\A c \in DOMAIN rooms \cap DOMAIN rooms' :
       (rooms[c].phase = "submit" /\ rooms'[c].phase = "judge_pick") =>
         \A i \in ConnectedSeats(rooms'[c]) :
           i # rooms'[c].judgeIndex + 1 =>
             \E k \in DOMAIN rooms'[c].submissions :
               rooms'[c].submissions[k].playerId = rooms'[c].players[i].id]_vars

\* C7 as stated: a game:start issued while the phase is not lobby fails and
\* leaves the room unchanged.
C7_StartOnlyInLobby ==
  [][\A c \in DOMAIN rooms :
       (lastEvent'.type = "game:start" /\ rooms[c].phase # "lobby") =>
         (lastEvent'.error # "" /\ rooms' = rooms)]_vars

\* the card piles and hands of a freshly dealt game
FreshDeal(room) ==
  /\ room.redDiscard = <<>>
  /\ room.greenDiscard = <<>>
  /\ room.currentGreenCard # noCard
  /\ \A card \in Range(GREEN_CARD_POOL) :
       Occurrences(room.greenDeck, card)
         + (IF room.currentGreenCard = card THEN 1 ELSE 0) = 1
  /\ \A card \in Range(RED_CARD_POOL) :
       Occurrences(room.redDeck, card) + HandOccurrences(room, card) = 1
  /\ \A i \in DOMAIN room.players :
       /\ HasHand(room, room.players[i].id)
       /\ \/ Len(room.privateHands[room.players[i].id]) = HAND_SIZE
          \/ room.redDeck = <<>>

\* everything of the full reset but the judge index
ResetFields(room) ==
  /\ room.phase = "submit"
  /\ room.round = 1
  /\ \A i \in DOMAIN room.players : room.players[i].score = 0
  /\ room.submissions = <<>>
  /\ room.lastWinnerId = null
  /\ FreshDeal(room)

\* a step that is an accepted game:start from lobby or an accepted rematch
\* from game_over of room c
ResetStep(c) ==
  /\ c \in DOMAIN rooms \cap DOMAIN rooms'
  /\ lastEvent'.error = ""
  /\ \/ lastEvent'.type = "game:start" /\ rooms[c].phase = "lobby"
     \/ lastEvent'.type = "game:rematch" /\ rooms[c].phase = "game_over"

\* C8 as stated: after a successful game:start or rematch the room is fully
\* reset, with judgeIndex = 0.
C8_FullResetJudgeZero ==
  [][\A c \in DOMAIN rooms :
       ResetStep(c) => (ResetFields(rooms'[c]) /\ rooms'[c].judgeIndex = 0)]_vars

\* C8 as amended: after a successful game:start (from lobby) or rematch (from
\* game_over) the room has phase = submit, round = 1, every score 0, no
\* submissions, lastWinnerId = null, empty discard piles, a current green
\* card, every hand dealt from a deck rebuilt from the full catalog, and
\* judgeIndex = the seat index of the first connected player in seat order
\* (0 when the player of seat 0 is connected).
C8_FullReset ==
  [][\A c \in DOMAIN rooms :
       ResetStep(c) =>
         /\ ResetFields(rooms'[c])
         /\ rooms'[c].judgeIndex + 1 \in ConnectedSeats(rooms'[c])
         /\ \A i \in ConnectedSeats(rooms'[c]) : rooms'[c].judgeIndex + 1 <= i]_vars

\* C8 witness: a rematch has reset a finished game.
C8_Witness ==
  \E room \in Rooms :
    /\ Accepted("game:rematch")
    /\ room.phase = "submit"
    /\ room.round = 1

\* C9 as stated: a game:start issued with fewer than 3 connected players is
\* rejected and the room stays in lobby.
C9_StartNeedsThree ==
  [][\A c \in DOMAIN rooms \cap DOMAIN rooms' :
       (/\ lastEvent'.type = "game:start"
        /\ rooms[c].phase = "lobby"
        /\ Cardinality(ConnectedSeats(rooms[c])) < 3) =>
         (lastEvent'.error # "" /\ rooms'[c].phase = "lobby")]_vars

Readiness(room) == [i \in DOMAIN room.players |-> room.players[i].ready]

\* C10 as stated: a room:ready issued while the phase is not lobby fails and
\* changes no ready flag; in lobby an accepted one flips exactly one ready
\* flag, that of a player bound to an open socket, and nothing else of the
\* room.
C10_ReadyOnlyInLobby ==
  [][\A c \in DOMAIN rooms \cap DOMAIN rooms' :
       lastEvent'.type = "room:ready" =>
         IF rooms[c].phase # "lobby"
           THEN lastEvent'.error # "" /\ Readiness(rooms'[c]) = Readiness(rooms[c])
           ELSE lastEvent'.error = "" =>
                  \E i \in DOMAIN rooms[c].players :
                    /\ rooms[c].players[i].socketId # null
                    /\ Open(rooms[c].players[i].socketId)
                    /\ rooms'[c] = [rooms[c] EXCEPT !.players[i].ready = ~@]]_vars


\* a step whose command was answered with a server:error
Rejected == lastEvent'.error # ""

\* C11: a command that is answered with an error leaves the registry as it
\* was: no room appears or vanishes and every room keeps its players, host,
\* phase, round, judge index, decks, discards, hands, submissions, scores and
\* winner fields.
C11_RejectedKeepsRoom ==
  [][Rejected => rooms' = rooms]_vars

\* C11 witness: a pick by a player who is not the judge was rejected after
\* getJudge ran, in a room whose first judge had disconnected.
C11_Witness ==
  \E room \in Rooms :
    /\ lastEvent = [type |-> "round:judge_pick",
                    error |-> "Only the active judge can pick the winner."]
    /\ room.phase = "judge_pick"
    /\ ~room.players[1].connected
    /\ room.judgeIndex # 0

\* socket s is the connection of the room's current judge
IsJudgeSocket(room, s) ==
  LET seat == getPlayerBySocket(room, s)
  IN seat # 0 /\ getJudge(room).judge = room.players[seat].id

\* C12: in judge_pick, a pick by the judge that names a submission id the
\* round's submissions do not hold fails with the invalid-winner error, and
\* phase, scores, red discard pile and submissions stay as they were.
C12_InvalidWinner ==
  [][\A c \in DOMAIN rooms, s \in Sockets, submissionId \in SubmissionIds :
       (/\ lastEvent'.type = "round:judge_pick"
        /\ sockets[s].roomCode = c
        /\ rooms[c].phase = "judge_pick"
        /\ IsJudgeSocket(rooms[c], s)
        /\ \A i \in DOMAIN rooms[c].submissions :
             rooms[c].submissions[i].id # submissionId
        /\ RoundJudgePick(s, submissionId)) =>
         /\ lastEvent'.error = "Winner must be one of the submitted cards."
         /\ c \in DOMAIN rooms'
         /\ rooms'[c].phase = "judge_pick"
         /\ rooms'[c].players = rooms[c].players
         /\ rooms'[c].redDiscard = rooms[c].redDiscard
         /\ rooms'[c].submissions = rooms[c].submissions]_vars

\* C12 witness: the judge's pick of an unknown id was rejected while the
\* round had submissions.
C12_Witness ==
  \E room \in Rooms :
    /\ lastEvent = [type |-> "round:judge_pick",
                    error |-> "Winner must be one of the submitted cards."]
    /\ room.phase = "judge_pick"
    /\ room.submissions # <<>>

Scores(room) == [i \in DOMAIN room.players |-> room.players[i].score]

\* C13: an accepted judge pick adds exactly 1 to the score of the player who
\* owns the chosen submission, keeps every other score, and moves the phase
\* out of judge_pick; a round:judge_pick in any other phase is rejected and
\* keeps every score, so no second pick scores in the same round.
C13_ExactlyOnceScoring ==
  [][\A c \in DOMAIN rooms \cap DOMAIN rooms', s \in Sockets, submissionId \in SubmissionIds :
       (/\ lastEvent'.type = "round:judge_pick"
        /\ sockets[s].roomCode = c
        /\ RoundJudgePick(s, submissionId)) =>
         IF lastEvent'.error = ""
           THEN /\ rooms[c].phase = "judge_pick"
                /\ rooms'[c].phase \in {"score", "game_over"}
                /\ \E k \in DOMAIN rooms[c].submissions :
                     /\ rooms[c].submissions[k].id = submissionId
                     /\ \A i \in DOMAIN rooms[c].players :
                          Scores(rooms'[c])[i] =
                            Scores(rooms[c])[i]
                              + (IF rooms[c].players[i].id = rooms[c].submissions[k].playerId
                                   THEN 1 ELSE 0)
                /\ DOMAIN rooms'[c].players = DOMAIN rooms[c].players
           ELSE Scores(rooms'[c]) = Scores(rooms[c])]_vars

\* C13 witness: a pick was accepted in a round with two submissions and the
\* room shows the score phase.
C13_Witness ==
  \E room \in Rooms :
    /\ Accepted("round:judge_pick")
    /\ room.phase = "score"
    /\ Len(room.submissions) = 2
    /\ \E i \in DOMAIN room.players :
         room.players[i].id = room.lastWinnerId /\ room.players[i].score = 1

\* C14, every state: no score exceeds WIN_SCORE, and the phase is game_over
\* exactly when some player's score equals WIN_SCORE.
C14_ScoresAndGameOver ==
  \A room \in Rooms :
    /\ \A i \in DOMAIN room.players : room.players[i].score <= WIN_SCORE
    /\ room.phase = "game_over" <=>
         \E i \in DOMAIN room.players : room.players[i].score = WIN_SCORE

\* C14, the pick: after an accepted judge pick the phase is game_over when
\* the winner's score has reached WIN_SCORE, with no submissions and no
\* current green card, and score otherwise.
C14_PickDecides ==
  \A c \in DOMAIN rooms \cap DOMAIN rooms' :
    (lastEvent'.type = "round:judge_pick" /\ lastEvent'.error = "") =>
      LET winner == getPlayerById(rooms'[c], rooms'[c].lastWinnerId)
      IN /\ winner # 0
         /\ IF rooms'[c].players[winner].score >= WIN_SCORE
              THEN /\ rooms'[c].phase = "game_over"
                   /\ rooms'[c].submissions = <<>>
                   /\ rooms'[c].currentGreenCard = noCard
              ELSE rooms'[c].phase = "score"

\* C14: after a successful judge_pick the phase is game_over if and only if
\* the winner's score has reached WIN_SCORE (then the submissions are empty
\* and the current green card is null), otherwise it is score; in every
\* reachable state no score exceeds WIN_SCORE and the phase is game_over
\* exactly when some player's score equals WIN_SCORE.
C14_WinThreshold ==
  /\ []C14_ScoresAndGameOver
  /\ [][C14_PickDecides]_vars

\* C14 witness: an accepted pick has taken the winner to WIN_SCORE and the
\* room to game_over.
C14_Witness ==
  \E room \in Rooms :
    /\ Accepted("round:judge_pick")
    /\ room.phase = "game_over"
    /\ \E i \in DOMAIN room.players :
         room.players[i].id = room.lastWinnerId /\ room.players[i].score = WIN_SCORE

\* the seat (1-based) of the first connected player strictly after seat in
\* cyclic seat order, seat itself when it is the only connected one; 0 when
\* nobody is connected
FirstConnectedAfter(room, seat) ==
  LET n == Len(room.players)
      at(offset) == ((seat - 1 + offset) % n) + 1
      offsets == {offset \in 1..n : room.players[at(offset)].connected}
  IN IF offsets = {} THEN 0
     ELSE at(CHOOSE offset \in offsets : \A other \in offsets : offset <= other)

\* C15 as stated: after an accepted round:next in phase score the round
\* counter is one higher, the phase is submit with no submissions, and the
\* judge of the new round is the first connected player strictly after the
\* previous round's judge in cyclic seat order.
C15_JudgeRotation ==
  [][\A c \in DOMAIN rooms \cap DOMAIN rooms' :
       (/\ lastEvent'.type = "round:next"
        /\ lastEvent'.error = ""
        /\ rooms[c].phase = "score") =>
         /\ rooms'[c].round = rooms[c].round + 1
         /\ rooms'[c].phase = "submit"
         /\ rooms'[c].submissions = <<>>
         /\ rooms'[c].judgeIndex + 1 =
              FirstConnectedAfter(rooms[c], getPlayerById(rooms[c], roundJudge[c]))]_vars

PlayerIdsOf(room) == [i \in DOMAIN room.players |-> room.players[i].id]

\* C16, every step: the ids of a room's players stay as they are, in their
\* order, or one fresh player (score 0, not ready, connected) is appended by
\* an accepted room:join in lobby.
C16_AppendOnly ==
  \A c \in DOMAIN rooms \cap DOMAIN rooms' :
    \/ PlayerIdsOf(rooms'[c]) = PlayerIdsOf(rooms[c])
    \/ /\ lastEvent' = [type |-> "room:join", error |-> ""]
       /\ rooms[c].phase = "lobby"
       /\ Len(rooms'[c].players) = Len(rooms[c].players) + 1
       /\ SubSeq(rooms'[c].players, 1, Len(rooms[c].players)) = rooms[c].players
       /\ LET fresh == rooms'[c].players[Len(rooms'[c].players)]
          IN /\ getPlayerById(rooms[c], fresh.id) = 0
             /\ fresh.score = 0
             /\ ~fresh.ready
             /\ fresh.connected

\* C16, the join outside lobby: a room:join without the id of a player of the
\* room fails with the game-already-started error and changes nothing.
C16_LateJoinFails ==
  \A c \in DOMAIN rooms, s \in Sockets, playerId \in PlayerIds \cup {null} :
    (/\ lastEvent'.type = "room:join"
     /\ rooms[c].phase # "lobby"
     /\ (playerId = null \/ getPlayerById(rooms[c], playerId) = 0)
     /\ ConnectAndJoin(s, c, playerId)) =>
      /\ lastEvent'.error = "Game already started. New joins are limited to the lobby."
      /\ rooms' = rooms

\* C16: the player sequence of a room changes only by appending one fresh
\* player on a join without a matching player id in lobby; the same join in
\* any other phase fails and adds nobody; no player is removed or reordered
\* while the room lives.
C16_PlayerList ==
  [][C16_AppendOnly /\ C16_LateJoinFails]_vars

\* C16 witness: a newcomer's join was refused by a started room that two
\* players had joined in lobby.
C16_Witness ==
  \E room \in Rooms :
    /\ lastEvent = [type |-> "room:join",
                    error |-> "Game already started. New joins are limited to the lobby."]
    /\ Started(room)
    /\ PlayerIdsOf(room) = <<1, 2>>

\* C17: a room:join that presents the id of a player of the room succeeds in
\* every phase, is answered with rejoined = true, marks that player connected
\* and bound to the new socket, gives the player the name the join carries
\* (unless that is the fallback name), and changes nothing else of the room:
\* no new player, the same hands and scores, the same phase, round, decks,
\* discards and submissions.
C17_Rejoin ==
  [][\A c \in DOMAIN rooms, s \in Sockets, playerId \in PlayerIds :
       (/\ lastEvent'.type = "room:join"
        /\ getPlayerById(rooms[c], playerId) # 0
        /\ ConnectAndJoin(s, c, playerId)) =>
         LET seat == getPlayerById(rooms[c], playerId)
         IN /\ lastEvent'.error = ""
            /\ Len(joined') = 1
            /\ "rejoined" \in DOMAIN joined'[1]
            /\ joined'[1].rejoined
            /\ joined'[1].playerId = playerId
            /\ sockets'[s] = [status |-> "open", roomCode |-> c, playerId |-> playerId]
            /\ rooms' = [rooms EXCEPT ![c].players[seat].connected = TRUE,
                                      ![c].players[seat].socketId = s,
                                      ![c].players[seat].name =
                                         rejoinedName(rooms[c], seat,
                                                      sanitizeName(payloadName(s)))]]_vars

\* C17 witness: a disconnected player who holds cards and a point came back
\* in the middle of a game.
C17_Witness ==
  \E room \in Rooms :
    /\ Accepted("room:join")
    /\ Len(joined) = 1
    /\ "rejoined" \in DOMAIN joined[1]
    /\ room.phase \in {"submit", "judge_pick", "score"}
    /\ LET seat == getPlayerById(room, joined[1].playerId)
       IN /\ room.players[seat].score > 0
          /\ room.privateHands[joined[1].playerId] # <<>>

\* C18: a disconnect of a socket bound to a player of a room sets that
\* player's connected = false, socketId = null and ready = false and, if the
\* room survives, changes nothing else of it but possibly the host id, the
\* judge index and the phase, the phase only from submit to judge_pick: every
\* hand, score, submission, deck, discard pile and the round counter stay.
C18_DisconnectFrame ==
  [][\A c \in DOMAIN rooms \cap DOMAIN rooms', s \in Sockets :
       (/\ lastEvent'.type = "disconnect"
        /\ sockets[s].roomCode = c
        /\ getPlayerById(rooms[c], sockets[s].playerId) # 0
        /\ Disconnect(s)) =>
         LET seat == getPlayerById(rooms[c], sockets[s].playerId)
         IN /\ rooms'[c] = [rooms[c] EXCEPT !.players[seat].connected = FALSE,
                                            !.players[seat].socketId = null,
                                            !.players[seat].ready = FALSE,
                                            !.hostPlayerId = rooms'[c].hostPlayerId,
                                            !.judgeIndex = rooms'[c].judgeIndex,
                                            !.phase = rooms'[c].phase]
            /\ \/ rooms'[c].phase = rooms[c].phase
               \/ rooms[c].phase = "submit" /\ rooms'[c].phase = "judge_pick"]_vars

\* C18 witness: a player who holds cards and a point has disconnected in the
\* middle of a game that goes on.
C18_Witness ==
  \E room \in Rooms :
    /\ lastEvent.type = "disconnect"
    /\ Started(room)
    /\ \E i \in DOMAIN room.players :
         /\ ~room.players[i].connected
         /\ room.players[i].socketId = null
         /\ room.players[i].score > 0
         /\ room.privateHands[room.players[i].id] # <<>>

\* C19, every state: the host of a room in the registry is a player of the
\* room who is connected.
C19_HostConnected ==
  \A room \in Rooms :
    \E i \in ConnectedSeats(room) : room.players[i].id = room.hostPlayerId

\* C19, the transfer: when the host disconnects and the room survives, the
\* new host is the first connected player after the old host's seat in
\* cyclic seat order.
C19_NextAfterHost ==
  \A c \in DOMAIN rooms \cap DOMAIN rooms', s \in DOMAIN sockets :
    (/\ lastEvent'.type = "disconnect"
     /\ sockets[s].roomCode = c
     /\ sockets[s].playerId = rooms[c].hostPlayerId
     /\ Disconnect(s)) =>
      LET seat == getPlayerById(rooms[c], rooms[c].hostPlayerId)
          next == FirstConnectedAfter(rooms'[c], seat)
      IN next # 0 /\ rooms'[c].hostPlayerId = rooms'[c].players[next].id

\* C19 as stated: when the host disconnects while another player is
\* connected, the host role moves to the next connected player in seat order
\* after the old host; in every live room the hostPlayerId is the id of a
\* connected player of that room.
C19_HostTransfer ==
  /\ []C19_HostConnected
  /\ [][C19_NextAfterHost]_vars

\* C20, every state: every room in the registry has a player with
\* connected = true.
C20_SomeoneConnected ==
  \A room \in Rooms : ConnectedSeats(room) # {}

\* C20, the disconnect: after a disconnect of a player of room c the room is
\* gone from the registry exactly when no other player of it was connected;
\* every other room stays.
C20_CollectsEmptyRoom ==
  \A c \in DOMAIN rooms, s \in DOMAIN sockets :
    (/\ lastEvent'.type = "disconnect"
     /\ Disconnect(s)) =>
      LET seat == IF sockets[s].roomCode = c
                    THEN getPlayerById(rooms[c], sockets[s].playerId) ELSE 0
      IN (c \in DOMAIN rooms') <=> (ConnectedSeats(rooms[c]) \ {seat} # {})

\* C20, the later join: a room:join that names a code the registry does not
\* hold fails with the room-not-found error and creates no room.
C20_JoinAfterCollect ==
  \A c \in RoomCodes \ DOMAIN rooms, s \in DOMAIN sockets, playerId \in PlayerIds \cup {null} :
    (/\ lastEvent'.type = "room:join"
     /\ ConnectAndJoin(s, c, playerId)) =>
      /\ lastEvent'.error = "Room not found."
      /\ rooms' = rooms

\* C20: after a disconnect a room whose players are all disconnected is no
\* longer in the registry and a room with a connected player still is; every
\* room in the registry has a connected player; a later join to a collected
\* room fails with the room-not-found error.
C20_GarbageCollection ==
  /\ []C20_SomeoneConnected
  /\ [][C20_CollectsEmptyRoom /\ C20_JoinAfterCollect]_vars

\* C20 witness: the room was collected after its last player left, and a
\* join that came later was refused.
C20_Witness ==
  /\ rooms = <<>>
  /\ \E s \in DOMAIN sockets :
       sockets[s].status = "closed" /\ sockets[s].roomCode \in RoomCodes
  /\ lastEvent = [type |-> "room:join", error |-> "Room not found."]

\* C21 as stated: room:create registers the new room under a code that no
\* room of the registry uses, every room the registry held stays as it was,
\* and the new room has exactly one player, connected and host, in phase
\* lobby with round 0.
C21_RoomCodeUnique ==
  [][lastEvent'.type = "room:create" =>
       \E code \in RoomCodes :
         /\ code \notin DOMAIN rooms
         /\ DOMAIN rooms' = DOMAIN rooms \cup {code}
         /\ \A c \in DOMAIN rooms : rooms'[c] = rooms[c]
         /\ Len(rooms'[code].players) = 1
         /\ rooms'[code].players[1].connected
         /\ rooms'[code].players[1].id = rooms'[code].hostPlayerId
         /\ rooms'[code].phase = "lobby"
         /\ rooms'[code].round = 0]_vars

\* the commands a client sends
CommandTypes ==
  {"room:create", "room:join", "room:ready", "game:start", "round:submit",
   "round:judge_pick", "round:next", "game:rematch"}

PublicPhases == {"lobby", "submit", "judge_pick", "score", "game_over"}

\* C22 as stated: an accepted command has caused exactly one room:update
\* broadcast, which is the snapshot of the room as the command left it, and
\* every broadcast snapshot has a phase in lobby, submit, judge_pick, score,
\* game_over (none shows next_round).
C22_OneConsistentBroadcast ==
  /\ (lastEvent.type \in CommandTypes /\ lastEvent.error = "") =>
       /\ Len(emitted) = 1
       /\ emitted[1].roomCode \in DOMAIN rooms
       /\ emitted[1] = toPublicRoomState(rooms[emitted[1].roomCode]).snap
  /\ \A n \in DOMAIN emitted : emitted[n].phase \in PublicPhases

\* the cards a snapshot shows: the green card and the cards of the listed
\* submissions
SnapshotCards(snap) ==
  {snap.greenCard[i].id : i \in DOMAIN snap.greenCard}
    \cup {snap.submissions[k].cardId : k \in DOMAIN snap.submissions}

\* the cards in the hands of a room
HandCards(room) ==
  UNION {Range(room.privateHands[p]) : p \in DOMAIN room.privateHands}

\* hands a room could hold in place of its own: none, all empty, every hand
\* the whole catalog, every hand reversed, every hand that of the first seat
HandVariants(room) ==
  LET ids == DOMAIN room.privateHands
      reversed(hand) == [i \in DOMAIN hand |-> hand[Len(hand) + 1 - i]]
  IN {<<>>,
      [p \in ids |-> <<>>],
      [p \in ids |-> RED_CARD_POOL],
      [p \in ids |-> reversed(room.privateHands[p])],
      [p \in ids |-> IF 1 \in ids THEN room.privateHands[1] ELSE <<>>]}

\* two rooms that differ in the hands alone have the same public snapshot
HandsDoNotInterfere(room) ==
  \A hands \in HandVariants(room) :
    toPublicRoomState([room EXCEPT !.privateHands = hands]).snap
      = toPublicRoomState(room).snap

\* C23 as stated: rooms that agree on everything but the hands have the same
\* public snapshot, and the public snapshot of a room shows no card that is
\* in a hand of the room.
C23_HandPrivacyNoHandCard ==
  \A room \in Rooms :
    /\ HandsDoNotInterfere(room)
    /\ SnapshotCards(toPublicRoomState(room).snap) \cap HandCards(room) = {}

\* C23 as amended: rooms that agree on everything but the hands have the same
\* public snapshot; while the phase is lobby, submit, judge_pick or game_over
\* the public snapshot shows no card that is in a hand; in score it may show
\* one, and then the card is that of a listed submission of the round just
\* judged, which the pick discarded and the refill dealt out again.
C23_HandPrivacy ==
  \A room \in Rooms :
    LET snap == toPublicRoomState(room).snap
    IN /\ HandsDoNotInterfere(room)
       /\ room.phase # "score" => SnapshotCards(snap) \cap HandCards(room) = {}
       /\ room.phase = "score" =>
            \A card \in SnapshotCards(snap) \cap HandCards(room) :
              \E k \in DOMAIN room.submissions : room.submissions[k].card = card

\* C23 witness: a snapshot in judge_pick lists the submitted cards while the
\* players hold cards.
C23_Witness ==
  \E room \in Rooms :
    /\ room.phase = "judge_pick"
    /\ toPublicRoomState(room).snap.submissions # <<>>
    /\ HandCards(room) # {}
    /\ \E hands \in HandVariants(room) : hands # room.privateHands

\* the seat of the player a leaderboard entry names
SeatOf(room, entry) == getPlayerById(room, entry.id)

\* C24: the leaderboard of every room's snapshot holds each player of the
\* room exactly once, with the player's name and score; it is sorted by score
\* descending and, among equal scores, by name ascending; entries equal in
\* both stand in seat order, so that the sequence is a function of the
\* players alone; the room has no leaderboard field and computing the
\* leaderboard leaves the players as they are.
C24_Leaderboard ==
  \A room \in Rooms :
    LET pub == toPublicRoomState(room)
        board == pub.snap.leaderboard
    IN /\ Len(board) = Len(room.players)
       /\ \A i \in DOMAIN room.players :
            \E k \in DOMAIN board :
              /\ board[k] = [id |-> room.players[i].id, name |-> room.players[i].name,
                             score |-> room.players[i].score]
              /\ \A other \in DOMAIN board : board[other].id = board[k].id => other = k
       /\ \A i, k \in DOMAIN board :
            i < k =>
              \/ board[i].score > board[k].score
              \/ /\ board[i].score = board[k].score
                 /\ NameRank(board[i].name) < NameRank(board[k].name)
              \/ /\ board[i].score = board[k].score
                 /\ board[i].name = board[k].name
                 /\ SeatOf(room, board[i]) < SeatOf(room, board[k])
       /\ board = toLeaderboard(pub.room.players)
       /\ "leaderboard" \notin DOMAIN room
       /\ pub.room.players = room.players

\* C24 witness: three players; the one on top has a point and is not the
\* first seat, and two players level on points stand in the order of their
\* names, against the order of their seats.
C24_Witness ==
  \E room \in Rooms :
    LET board == toPublicRoomState(room).snap.leaderboard
    IN /\ Len(board) = 3
       /\ board[1].score > board[2].score
       /\ SeatOf(room, board[1]) # 1
       /\ board[2].score = board[3].score
       /\ board[2].name # board[3].name
       /\ SeatOf(room, board[2]) > SeatOf(room, board[3])

\* C25 as stated: when the connection of the round's judge is lost while the
\* phase is judge_pick, the room stays in judge_pick and a round:judge_pick
\* of no other connection is accepted in the room the disconnect leaves,
\* whatever submission it names.
C25_JudgeByIdentity ==
  [][\A c \in DOMAIN rooms \cap DOMAIN rooms', s \in Sockets :
       (/\ lastEvent'.type = "disconnect"
        /\ sockets[s].roomCode = c
        /\ rooms[c].phase = "judge_pick"
        /\ IsJudgeSocket(rooms[c], s)
        /\ Disconnect(s)) =>
         /\ rooms'[c].phase = "judge_pick"
         /\ \A t \in Sockets \ {s}, submissionId \in SubmissionIds :
              \A o \in judgePick(rooms'[c], t, submissionId) : o.error # ""]_vars

\* the hand of the seat-th player of a room
HandOfSeat(room, seat) ==
  IF HasHand(room, room.players[seat].id)
    THEN room.privateHands[room.players[seat].id] ELSE <<>>

RECURSIVE SumFirst(_, _)
SumFirst(numbers, n) ==
  IF n = 0 THEN 0 ELSE SumFirst(numbers, n - 1) + numbers[n]

\* the sum of the scores of a room's players
TotalScore(room) == SumFirst(Scores(room), Len(room.players))

\* C27, every state: after a start the scores add up to round - 1 while the
\* phase is submit or judge_pick and to round while it is score or game_over.
C27_ScoreSum ==
  \A room \in Rooms :
    Started(room) =>
      TotalScore(room) = IF room.phase \in {"submit", "judge_pick"}
                           THEN room.round - 1 ELSE room.round

\* C27, the frame: room:join (new player or rejoin), disconnect, room:ready,
\* round:submit and round:next leave the score of every player as it was.
C27_OthersKeepScores ==
  \A c \in DOMAIN rooms \cap DOMAIN rooms' :
    lastEvent'.type \in {"room:join", "disconnect", "room:ready", "round:submit",
                         "round:next"} =>
      \A i \in DOMAIN rooms[c].players :
        rooms'[c].players[i].score = rooms[c].players[i].score

\* C27: scores change only by winning a round or by a reset: the score sum
\* follows the round counter and the listed commands change no score.
C27_ScoresOnlyByWinning ==
  /\ []C27_ScoreSum
  /\ [][C27_OthersKeepScores]_vars

\* C27 witness: the third round has begun with a point each for two players.
C27_Witness ==
  \E room \in Rooms :
    /\ Accepted("round:next")
    /\ room.phase = "submit"
    /\ room.round = 3
    /\ \E i, k \in DOMAIN room.players :
         i # k /\ room.players[i].score = 1 /\ room.players[k].score = 1

\* a step that is an accepted round:submit, or the disconnect of a player,
\* of room c in phase submit, after which the room is still there
CompletionCheckStep(c) ==
  /\ c \in DOMAIN rooms \cap DOMAIN rooms'
  /\ rooms[c].phase = "submit"
  /\ \/ lastEvent' = [type |-> "round:submit", error |-> ""]
     \/ /\ lastEvent'.type = "disconnect"
        /\ \E s \in Sockets :
             /\ sockets[s].roomCode = c
             /\ getPlayerById(rooms[c], sockets[s].playerId) # 0
             /\ Disconnect(s)

\* the number of connected players of a room other than the judge its
\* broadcast named
ExpectedSubmissions(room, snap) ==
  Cardinality({i \in ConnectedSeats(room) : room.players[i].id # snap.judgePlayerId})

\* C28 as stated: after every accepted submit and every disconnect processed
\* in submit, the phase is judge_pick if the number of submissions is at
\* least the number of connected players other than the judge, and submit
\* otherwise.
C28_CompletionCheckAtLeast ==
  [][\A c \in DOMAIN rooms :
       CompletionCheckStep(c) =>
         rooms'[c].phase =
           IF Len(rooms'[c].submissions) >= ExpectedSubmissions(rooms'[c], emitted'[1])
             THEN "judge_pick" ELSE "submit"]_vars

\* C28 as amended: after every accepted submit and every disconnect
\* processed in submit, the phase is judge_pick if at least one player other
\* than the judge is connected and the number of submissions is at least the
\* number of such players, and submit otherwise (so it stays submit when the
\* judge is the only connected player).
C28_CompletionCheck ==
  [][\A c \in DOMAIN rooms :
       CompletionCheckStep(c) =>
         LET expected == ExpectedSubmissions(rooms'[c], emitted'[1])
         IN rooms'[c].phase =
              IF expected > 0 /\ Len(rooms'[c].submissions) >= expected
                THEN "judge_pick" ELSE "submit"]_vars

\* C28 witness: of three players the third, who had not submitted, has
\* disconnected, and the one submission of the second has closed the round.
C28_Witness ==
  \E room \in Rooms :
    /\ lastEvent.type = "disconnect"
    /\ room.phase = "judge_pick"
    /\ Len(room.players) = 3
    /\ room.players[1].socketId = 1
    /\ room.players[2].socketId = 2
    /\ ~room.players[3].connected
    /\ sockets[3] = [status |-> "closed", roomCode |-> room.code, playerId |-> 3]
    /\ Len(room.submissions) = 1
    /\ room.submissions[1].playerId = 2

\* the card a draw has pushed on a hand (<<>> when the hand did not grow)
Returned(before, after) ==
  IF Len(after) > Len(before) THEN <<after[Len(after)]>> ELSE <<>>

\* C29: a draw from a non-empty draw pile removes its top card, returns it
\* and leaves the discard pile; a draw from an empty draw pile with a
\* non-empty discard pile empties the discard pile, returns one of its cards
\* and makes the others, in some order, the draw pile; no card is returned
\* exactly when both piles are empty, and then nothing changes; over draw
\* pile, discard pile and returned card every card occurs as often as before.
C29_DrawCard ==
  [][\A code \in DOMAIN rooms, seat \in PileSeats :
       (lastEvent'.type = "drawCard" /\ DrawIntoHand(seat)) =>
         LET id == rooms[code].players[seat].id
             deck == rooms[code].redDeck
             discard == rooms[code].redDiscard
             deckAfter == rooms'[code].redDeck
             discardAfter == rooms'[code].redDiscard
             before == rooms[code].privateHands[id]
             after == rooms'[code].privateHands[id]
             returned == Returned(before, after)
         IN /\ SubSeq(after, 1, Len(before)) = before
            /\ Len(after) <= Len(before) + 1
            /\ deck # <<>> =>
                 /\ returned = <<deck[Len(deck)]>>
                 /\ deckAfter = SubSeq(deck, 1, Len(deck) - 1)
                 /\ discardAfter = discard
            /\ (deck = <<>> /\ discard # <<>>) =>
                 /\ discardAfter = <<>>
                 /\ Len(returned) = 1
                 /\ \A card \in CardIds :
                      Occurrences(deckAfter \o returned, card) = Occurrences(discard, card)
            /\ (returned = <<>>) <=> (deck = <<>> /\ discard = <<>>)
            /\ returned = <<>> => rooms' = rooms
            /\ \A card \in CardIds :
                 Occurrences(deckAfter, card) + Occurrences(discardAfter, card)
                   + Occurrences(returned, card)
                   = Occurrences(deck, card) + Occurrences(discard, card)]_vars

\* C29 witness: a draw has happened, the discard pile has been recycled (it
\* is empty and the draw pile, which holds cards only after a refill, is
\* not), and a hand holds a card.
C29_Witness ==
  \E room \in Rooms :
    /\ lastEvent.type = "drawCard"
    /\ room.redDiscard = <<>>
    /\ Len(room.redDeck) >= 2
    /\ HandCards(room) # {}

\* every player of the room has a hand of HAND_SIZE cards, or both red piles
\* are empty
DealtOut(room) ==
  \/ \A i \in DOMAIN room.players : Len(HandOfSeat(room, i)) = HAND_SIZE
  \/ room.redDeck = <<>> /\ room.redDiscard = <<>>

\* every hand of before is still there in after, its cards in front
HandsKept(before, after) ==
  \A p \in DOMAIN before.privateHands :
    /\ p \in DOMAIN after.privateHands
    /\ SubSeq(after.privateHands[p], 1, Len(before.privateHands[p]))
         = before.privateHands[p]

\* C30, every state: no hand holds more than HAND_SIZE cards; dealToHandSize
\* run on the room has an outcome (it raises nothing), and each outcome has
\* every player, connected or not, at HAND_SIZE cards or both red piles
\* empty, and every hand kept.
C30_DealOutcome ==
  \A room \in Rooms :
    /\ \A p \in DOMAIN room.privateHands : Len(room.privateHands[p]) <= HAND_SIZE
    /\ dealToHandSize(room) # {}
    /\ \A dealt \in dealToHandSize(room) :
         /\ DealtOut(dealt)
         /\ HandsKept(room, dealt)
         /\ dealt.players = room.players

\* C30, the handlers that deal: after an accepted game:start, game:rematch,
\* round:next, or round:judge_pick that leads to score, every player has
\* HAND_SIZE cards or both red piles are empty; round:next and
\* round:judge_pick keep every hand.
C30_AfterDeal ==
  \A c \in DOMAIN rooms \cap DOMAIN rooms' :
    (/\ lastEvent'.error = ""
     /\ \/ lastEvent'.type \in {"game:start", "game:rematch", "round:next"}
        \/ lastEvent'.type = "round:judge_pick" /\ rooms'[c].phase = "score") =>
      /\ DealtOut(rooms'[c])
      /\ lastEvent'.type \in {"round:next", "round:judge_pick"} =>
           HandsKept(rooms[c], rooms'[c])

\* C30: dealToHandSize leaves every player, connected or not, with exactly
\* HAND_SIZE cards unless redDeck and redDiscard are both empty, removes no
\* card from a hand and raises no error; no reachable hand holds more than
\* HAND_SIZE cards.
C30_DealToHandSize ==
  /\ []C30_DealOutcome
  /\ [][C30_AfterDeal]_vars

\* C30 witness: after a pick the submitter, who had disconnected, holds
\* HAND_SIZE cards again, the red piles are empty and the third player has
\* fewer cards.
C30_Witness ==
  \E room \in Rooms :
    /\ Accepted("round:judge_pick")
    /\ room.phase = "score"
    /\ room.redDeck = <<>>
    /\ room.redDiscard = <<>>
    /\ \E i, k \in DOMAIN room.players :
         /\ ~room.players[i].connected
         /\ Len(HandOfSeat(room, i)) = HAND_SIZE
         /\ \E n \in DOMAIN room.submissions :
              room.submissions[n].playerId = room.players[i].id
         /\ Len(HandOfSeat(room, k)) < HAND_SIZE

\* C31: an accepted round:submit of card cardId on socket s comes from a
\* connected player of a room in submit who is not the judge and holds the
\* card; it takes exactly that card out of the player's hand (one card
\* fewer, the others in their order), appends exactly one submission with
\* the player's id and the card, and keeps every other hand, the four piles,
\* the green card, the scores and the round.
C31_SubmitFrame ==
  [][\A c \in DOMAIN rooms \cap DOMAIN rooms', s \in Sockets, cardId \in CardIds :
       (/\ sockets[s].roomCode = c
        /\ RoundSubmit(s, cardId)
        /\ lastEvent'.error = "") =>
         LET seat == getPlayerBySocket(rooms[c], s)
             playerId == rooms[c].players[seat].id
             hand == HandOfSeat(rooms[c], seat)
             before == rooms[c].submissions
             after == rooms'[c].submissions
         IN /\ seat # 0
            /\ rooms[c].phase = "submit"
            /\ rooms[c].players[seat].connected
            /\ ~IsJudgeSocket(rooms[c], s)
            /\ Occurrences(hand, cardId) = 1
            /\ HandOfSeat(rooms'[c], seat) = SelectSeq(hand, LAMBDA card : card # cardId)
            /\ Len(HandOfSeat(rooms'[c], seat)) = Len(hand) - 1
            /\ Len(after) = Len(before) + 1
            /\ SubSeq(after, 1, Len(before)) = before
            /\ after[Len(after)].playerId = playerId
            /\ after[Len(after)].card = cardId
            /\ \A i \in DOMAIN rooms[c].players :
                 i # seat => HandOfSeat(rooms'[c], i) = HandOfSeat(rooms[c], i)
            /\ rooms'[c].redDeck = rooms[c].redDeck
            /\ rooms'[c].redDiscard = rooms[c].redDiscard
            /\ rooms'[c].greenDeck = rooms[c].greenDeck
            /\ rooms'[c].greenDiscard = rooms[c].greenDiscard
            /\ rooms'[c].currentGreenCard = rooms[c].currentGreenCard
            /\ Scores(rooms'[c]) = Scores(rooms[c])
            /\ rooms'[c].round = rooms[c].round]_vars

\* C31 witness: a submit was accepted as the second of its round, from a
\* player who keeps a card, and it closed the round.
C31_Witness ==
  \E room \in Rooms :
    /\ Accepted("round:submit")
    /\ room.phase = "judge_pick"
    /\ Len(room.submissions) = 2
    /\ LET last == room.submissions[2]
       IN /\ last.playerId # room.submissions[1].playerId
          /\ Len(HandOfSeat(room, getPlayerById(room, last.playerId))) = HAND_SIZE - 1

\* how often a green card occurs in greenDeck, greenDiscard and as the
\* current green card
GreenHeld(room, card) ==
  Occurrences(room.greenDeck, card) + Occurrences(room.greenDiscard, card)
    + (IF room.currentGreenCard = card THEN 1 ELSE 0)

\* C32: after a game start (phases submit, judge_pick, score, game_over)
\* every green catalog card occurs exactly once across greenDeck,
\* greenDiscard and currentGreenCard.
C32_GreenConservation ==
  \A room \in Rooms : Started(room) =>
    \A card \in Range(GREEN_CARD_POOL) : GreenHeld(room, card) = 1

\* the fields of a room other than judgeIndex
ExceptJudgeIndex(room) == [room EXCEPT !.judgeIndex = 0]

\* the stored judge index names a seat of the room, and a connected one
JudgeIndexHealed(room) ==
  /\ room.judgeIndex \in 0..(Len(room.players) - 1)
  /\ room.players[room.judgeIndex + 1].connected

\* C33, the pointer: in every room of the registry that has a player, after
\* each handled event, judgeIndex is a seat index of the room and the player
\* at that seat is connected.
C33_PointerHealed ==
  \A room \in Rooms : Len(room.players) >= 1 => JudgeIndexHealed(room)

\* C33, the snapshot: for every reachable room, under every stored judge
\* index and every pattern of connected seats, toPublicRoomState leaves
\* every field other than judgeIndex as it was, and leaves judgeIndex at a
\* connected seat when a seat is connected.
C33_SnapshotFrame ==
  \A room \in Rooms :
    \A index \in 0..(Len(room.players) - 1), up \in SUBSET DOMAIN room.players :
      LET before == WithConnectivity(room, index, up)
          after == toPublicRoomState(before).room
      IN /\ ExceptJudgeIndex(after) = ExceptJudgeIndex(before)
         /\ up # {} => JudgeIndexHealed(after)
         /\ up = {} => after = before

\* C33: the self-healed judge pointer, both parts.
C33_SelfHealedJudge == C33_PointerHealed /\ C33_SnapshotFrame

\* C33 witness: the disconnect of the player at the stored judge index was
\* handled, the room lives on, and the index has moved to a connected seat.
C33_Witness ==
  \E room \in Rooms :
    /\ lastEvent.type = "disconnect"
    /\ room.phase = "judge_pick"
    /\ Len(room.players) = 3
    /\ ~room.players[1].connected
    /\ ~room.players[2].connected
    /\ room.judgeIndex = 2
    /\ room.players[3].connected

\* C34, every state: while the phase is submit or judge_pick no submission
\* of the round belongs to the player that getJudge returns.
C34_NoSubmissionOfJudge ==
  \A room \in Rooms : room.phase \in {"submit", "judge_pick"} =>
    \A i \in DOMAIN room.submissions :
      room.submissions[i].playerId # getJudge(room).judge

\* C34, every step: an accepted round:judge_pick on socket s credits a
\* player other than the player bound to s.
C34_PickCreditsAnother ==
  [][\A c \in DOMAIN rooms \cap DOMAIN rooms', s \in Sockets, submissionId \in SubmissionIds :
       (/\ sockets[s].roomCode = c
        /\ getPlayerBySocket(rooms[c], s) # 0
        /\ RoundJudgePick(s, submissionId)
        /\ lastEvent'.error = "") =>
         rooms'[c].lastWinnerId # rooms[c].players[getPlayerBySocket(rooms[c], s)].id]_vars

\* C34 as stated: the judge never judges their own card, in every state and
\* at every pick.
C34_JudgeNeverJudgesOwnCard == []C34_NoSubmissionOfJudge /\ C34_PickCreditsAnother

\* the seat of the player socket.data of s names in room c (0 for none)
BoundSeat(c, s) ==
  IF sockets[s].roomCode = c /\ sockets[s].playerId # null
    THEN getPlayerById(rooms[c], sockets[s].playerId) ELSE 0

\* C35 as stated: when connection s closes while the player it was bound to
\* is attached to another connection that is still open, the room stays in
\* the registry, the player stays connected and bound to that connection and
\* the host stays; and the disconnect of s changes no player whose socketId
\* is not s.
C35_StaleDisconnect ==
  [][\A c \in DOMAIN rooms, s \in Sockets :
       (/\ BoundSeat(c, s) # 0
        /\ Disconnect(s)) =>
         /\ \A t \in Sockets \ {s} :
              (Open(t) /\ rooms[c].players[BoundSeat(c, s)].socketId = t) =>
                /\ c \in DOMAIN rooms'
                /\ rooms'[c].players[BoundSeat(c, s)].connected
                /\ rooms'[c].players[BoundSeat(c, s)].socketId = t
                /\ rooms'[c].hostPlayerId = rooms[c].hostPlayerId
         /\ c \in DOMAIN rooms' =>
              \A i \in DOMAIN rooms[c].players :
                rooms[c].players[i].socketId # s =>
                  rooms'[c].players[i] = rooms[c].players[i]]_vars

\* a room:join on any connection, also one that has created or joined a
\* room before: the handler never looks at socket.data
JoinOnAnyConnection(s, roomCode, playerId) ==
  /\ Open(s) \/ NextSocket(s)
  /\ RoomJoin(s, roomCode, playerId)

\* The lobby with joins repeated on one connection: rooms are created,
\* joined (a second time too on the same connection), and left.
NextRepeatedJoin ==
  \/ \E s \in Sockets : RoomCreate(s)
  \/ \E s \in Sockets, playerId \in PlayerIds \cup {null} :
       JoinOnAnyConnection(s, "ABC234", playerId)
  \/ \E s \in Sockets : Disconnect(s)

SpecRepeatedJoin == Init /\ [][NextRepeatedJoin]_vars

\* C36, bound to an open connection: every player marked connected has the
\* socket id of a connection that is open.
C36_ConnectedMeansOpen ==
  \A room \in Rooms : \A i \in DOMAIN room.players :
    room.players[i].connected =>
      /\ room.players[i].socketId \in DOMAIN sockets
      /\ sockets[room.players[i].socketId].status = "open"

\* C36, one player per connection: no two connected players, of one room
\* or of two, have the same socket id.
C36_OnePlayerPerConnection ==
  \A c, d \in DOMAIN rooms :
    \A i \in DOMAIN rooms[c].players, k \in DOMAIN rooms[d].players :
      (/\ <<c, i>> # <<d, k>>
       /\ rooms[c].players[i].connected
       /\ rooms[d].players[k].connected) =>
        rooms[c].players[i].socketId # rooms[d].players[k].socketId

\* C36, no leak: when no connection is open, every disconnect having been
\* handled, the registry holds no room.
C36_EmptyWhenAllClosed ==
  (\A s \in DOMAIN sockets : ~Open(s)) => rooms = <<>>

\* C36 as stated: rooms do not leak, also when a connection joins twice.
C36_RoomsDoNotLeak ==
  /\ C36_ConnectedMeansOpen
  /\ C36_OnePlayerPerConnection
  /\ C36_EmptyWhenAllClosed

\* ------------------------------------------------------- a game that runs
\* The guards of round:submit, round:judge_pick and round:next, as tests on
\* the room of connection s: the command of s would be accepted.
SubmitOpen(s) ==
  /\ Open(s)
  /\ sockets[s].roomCode \in DOMAIN rooms
  /\ LET room == CommandRoom(s)
         seat == getPlayerBySocket(room, s)
     IN /\ room.phase = "submit"
        /\ seat # 0
        /\ room.players[seat].connected
        /\ getJudge(room).judge \notin {null, room.players[seat].id}
        /\ \A i \in DOMAIN room.submissions :
             room.submissions[i].id # room.players[seat].id
        /\ HandOfSeat(room, seat) # <<>>

JudgePickOpen(s) ==
  /\ Open(s)
  /\ sockets[s].roomCode \in DOMAIN rooms
  /\ LET room == CommandRoom(s)
         seat == getPlayerBySocket(room, s)
     IN /\ room.phase = "judge_pick"
        /\ seat # 0
        /\ getJudge(room).judge = room.players[seat].id
        /\ \E i \in DOMAIN room.submissions :
             getPlayerById(room, room.submissions[i].playerId) # 0

NextOpen(s) ==
  /\ Open(s)
  /\ sockets[s].roomCode \in DOMAIN rooms
  /\ LET room == CommandRoom(s)
         seat == getPlayerBySocket(room, s)
     IN /\ room.phase = "score"
        /\ seat # 0
        /\ room.players[seat].id = room.hostPlayerId

\* the guards are exact: a guard holds for s exactly when the handler has
\* an outcome without error for some payload of s
GuardsExact ==
  \A s \in Sockets :
    (Open(s) /\ sockets[s].roomCode \in DOMAIN rooms) =>
      /\ SubmitOpen(s) <=>
           \E cardId \in CardIds :
             \E o \in roundSubmit(CommandRoom(s), s, cardId) : o.error = ""
      /\ JudgePickOpen(s) <=>
           \E submissionId \in SubmissionIds :
             \E o \in judgePick(CommandRoom(s), s, submissionId) : o.error = ""
      /\ NextOpen(s) <=> \E o \in roundNext(CommandRoom(s), s) : o.error = ""

\* A step in which the server accepts a round:submit, a round:judge_pick or
\* a round:next that some connection could send. Among the steps of the
\* server these are the accepted commands: only the handler of the command
\* logs the event without error.
AcceptedSubmit ==
  /\ \E s \in Sockets : SubmitOpen(s)
  /\ lastEvent' = [type |-> "round:submit", error |-> ""]

AcceptedJudgePick ==
  /\ \E s \in Sockets : JudgePickOpen(s)
  /\ lastEvent' = [type |-> "round:judge_pick", error |-> ""]

AcceptedNext ==
  /\ \E s \in Sockets : NextOpen(s)
  /\ lastEvent' = [type |-> "round:next", error |-> ""]

\* A room is set up and started once and its players stay: no disconnect
\* and no rematch; every round command may come from any connection at any
\* time, accepted or not.
NextGame ==
  \/ \E s \in Sockets : RoomCreate(s)
  \/ \E s \in Sockets, roomCode \in RoomCodes, playerId \in PlayerIds \cup {null} :
       ConnectAndJoin(s, roomCode, playerId)
  \/ \E s \in Sockets : ClientStart(s)
  \/ \E s \in Sockets, cardId \in CardIds : RoundSubmit(s, cardId)
  \/ \E s \in Sockets, submissionId \in SubmissionIds : RoundJudgePick(s, submissionId)
  \/ \E s \in Sockets : RoundNext(s)

\* The players keep playing: a submit, a pick or a next that the server
\* would accept is not put off for ever. The fairness is on the event log,
\* where an accepted command shows: it asks for an accepted command only
\* while the log does not already end with one of the same type, which is
\* no more than weak fairness of the accepted command asks.
SpecGame ==
  /\ Init
  /\ [][NextGame]_vars
  /\ WF_lastEvent(AcceptedSubmit)
  /\ WF_lastEvent(AcceptedJudgePick)
  /\ WF_lastEvent(AcceptedNext)

\* room c is in a started game of at least 2 players, all connected, with
\* HAND_SIZE red cards for each
InGame(c) ==
  /\ c \in DOMAIN rooms
  /\ Len(rooms[c].players) >= 2
  /\ ConnectedSeats(rooms[c]) = DOMAIN rooms[c].players
  /\ Len(rooms[c].players) * HAND_SIZE <= Len(RED_CARD_POOL)
  /\ rooms[c].phase \in {"submit", "judge_pick", "score"}

PhaseIn(c, phases) == c \in DOMAIN rooms /\ rooms[c].phase \in phases

\* C37 as stated: in such a game every round eventually reaches score and
\* the room eventually reaches game_over.
C37_EveryRoundReachesScore ==
  \A c \in RoomCodes :
    /\ (InGame(c) /\ PhaseIn(c, {"submit", "judge_pick"})) ~> PhaseIn(c, {"score"})
    /\ InGame(c) ~> PhaseIn(c, {"game_over"})

\* C37 as amended: in such a game every round is eventually judged, which
\* puts the room in score or, when the pick is the deciding one, in
\* game_over; and the room eventually reaches game_over.
C37_Progress ==
  \A c \in RoomCodes :
    /\ (InGame(c) /\ PhaseIn(c, {"submit", "judge_pick"}))
         ~> PhaseIn(c, {"score", "game_over"})
    /\ InGame(c) ~> PhaseIn(c, {"game_over"})

\* C37 witness: a game of two players, each with a full hand at the deal,
\* was decided by a judge pick in its third round.
C37_Witness ==
  \E room \in Rooms :
    /\ Accepted("round:judge_pick")
    /\ room.phase = "game_over"
    /\ Len(room.players) = 2
    /\ Len(room.players) * HAND_SIZE <= Len(RED_CARD_POOL)
    /\ room.round = 3
    /\ ConnectedSeats(room) = DOMAIN room.players

=============================================================================
